---- MODULE Spec2Model ----
(***************************************************************************)
(* A model of go-odp: the miss / vport-event pipeline of odp/packet.go and *)
(* the netlink request/response transport of netlink.go.                   *)
(***************************************************************************)
EXTENDS Naturals, Integers, Sequences, FiniteSets, TLC

----------------------------------------------------------------------------
(* Bounds *)

\* vport numbers range over 1..MaxVport on every datapath
MaxVport == 2

\* number of vport additions/deletions made by other programs
MaxExternal == 2

\* number of calls made on the socket
MaxOps == 2

\* number of messages a dump answers with, before NLMSG_DONE
MaxDump == 2

\* number of datagrams that answer no request
MaxStray == 1

\* number of key types a flow spec holds
MaxFlowKeys == 2

\* number of actions a flow spec holds
MaxActions == 2

\* number of lookupFamily calls
MaxLookups == 4

\* number of receive calls of the miss listener
MaxRecvs == 3

\* number of flows installed on the datapath
MaxFlows == 2

\* number of value bytes of one attribute
MaxData == 3

\* number of attributes put in one builder
MaxPuts == 2

\* depth of nested attributes
MaxDepth == 1

\* number of Finish calls of the process
MaxSeq == 2

\* number of messages in a datagram
MaxMsgs == 2

\* number of DatapathHandle variables the caller holds
MaxHandles == 1

\* the kernel gives out the interface indexes 1..MaxIfindex
MaxIfindex == 2

\* the threads that look up families at the same time
MaxThreads == 2

----------------------------------------------------------------------------
(* The miss pipeline: odp/packet.go *)

VportIds == 1..MaxVport

\* the datapath ConsumeMisses is called on, and another datapath of the
\* same kernel; the vport-event multicast group carries events of both
ListenDp == "dp"
OtherDp == "other"
Dps == {ListenDp, OtherDp}

Keys == Dps \X VportIds

\* sock.PortId() of the miss socket
upcallPortId == "misspid"

\* upcall-pid=0 given to a vport at creation
NoUpcall == "0"

VARIABLES
    kexists,      \* kernel: [Keys -> BOOLEAN], the vports that exist
    kupcall,      \* kernel: [Keys -> {NoUpcall, upcallPortId}]
    subscribed,   \* the vport-event socket has joined the multicast group
    evq,          \* vport events queued on the vport-event socket
    missRunning,  \* the consumeMisses goroutine is running
    fgpc,         \* position of the ConsumeMisses call
    fgList,       \* vports still to visit in the loop of ConsumeMisses
    fgv,          \* the vport of the foreground setVportUpcallPortId call
    evpc,         \* position of the vport-event goroutine
    evcur,        \* the event whose handler is running
    vportsDone,   \* missVportConsumer.vportsDone
    issued,       \* history: [Keys -> Nat], set-upcall requests sent
    preExisting,  \* history: the vports of ListenDp at activation
    extOps,       \* history: number of external changes so far
    enumerated,   \* history: the vports EnumerateVports returned
    staleIn,      \* history: ids inserted by a request older than a delete
    fgStale,      \* history: a delete that followed fg's request was handled
    retrig,       \* history: the event of a set-upcall led to a set-upcall
    delivered,    \* history: [Keys -> BOOLEAN], add event handled
    setFailed,    \* history: [Keys -> BOOLEAN], a set-upcall failed
    reqSocks      \* history: the sockets ConsumeMisses (fg) and the event
                  \* handler (ev) have sent requests on

kvars == <<kexists, kupcall, subscribed, evq>>
fgvars == <<missRunning, fgpc, fgList, fgv>>
evvars == <<evpc, evcur>>
hvars == <<issued, preExisting, extOps, enumerated, staleIn, fgStale,
           retrig, delivered, setFailed, reqSocks>>
mvars == <<kvars, fgvars, evvars, vportsDone, hvars>>

\* The transport: netlink.go
VARIABLES
    nextSeqNo,    \* the process-wide sequence counter
    sockq,        \* datagrams waiting in the socket's receive queue
    tpc,          \* "idle", or the call that is in its receive loop
    tseq,         \* the sequence number Finish stamped on the request
    failAt,       \* the dump consumer fails on this invocation (0: never)
    calls,        \* the messages the dump consumer was invoked with
    tres,         \* the result of the last call that returned
    feed,         \* history: the receive queue as the call began to receive
    nops,         \* history: calls made on the socket
    nstray        \* history: datagrams that answer no request

tvars == <<nextSeqNo, sockq, tpc, tseq, failAt, calls, tres, feed, nops, nstray>>

\* The flow codec: flow.go
VARIABLES
    fpc,          \* position of the flow-spec exercise
    fsa,          \* the flow spec the caller built
    fsb,          \* the flow spec, or flow keys, it is compared with
    fwire,        \* the attributes FlowSpec.toNlAttrs put in the message
    feq           \* the result of Equals(fsa, fsb)

fvars == <<fpc, fsa, fsb, fwire, feq>>

\* Datapaths and their handles: dpif.go, datapath.go
VARIABLES
    dsock,        \* [Clients -> BOOLEAN]: dpif.sock # nil
    kdp,          \* kernel: [Names -> ifindex], 0 for no such datapath
    nextIfindex,  \* kernel: the next interface index
    hnd,          \* the DatapathHandle values the caller holds, by slot
    ares,         \* the outcome of the last call
    created,      \* history: [Names -> Handle], the creating client and the
                  \* interface index the kernel assigned; NoHandle if none
    removed,      \* history: names deleted and not created since
    deletedVia    \* history: slots whose handle Delete succeeded on

avars == <<dsock, kdp, nextIfindex, hnd, ares, created, removed, deletedVia>>

\* The flows of one datapath: flow.go
VARIABLES
    kflows,       \* kernel: the attributes of the installed flows
    flres,        \* the outcome of the last flow call
    flmade,       \* history: the flow specs created and not deleted since
    flgone        \* history: the flow specs deleted and not created since

flvars == <<kflows, flres, flmade, flgone>>

\* Family lookup: dpif.go
VARIABLES
    triedLoadOpenvswitchModule,
    kfamily,      \* kernel: what GETFAMILY is answered with
    lpc,          \* position of the lookupFamily call
    lerr,         \* the error of the last LookupGenlFamily
    lres,         \* what lookupFamily returned
    lsent,        \* history: GETFAMILY requests of this call, with errors
    lprobes,      \* history: autoload probes made by the process
    lcalls,       \* history: lookupFamily calls made
    lthr          \* the threads inside loadOpenvswitchModule: their position,
                  \* and whether they have written the flag

lvars == <<triedLoadOpenvswitchModule, kfamily, lpc, lerr, lres, lsent,
           lprobes, lcalls, lthr>>

\* The listener loop: NetlinkSocket.consume, consumeMisses
VARIABLES
    cpc,          \* "running" or "stopped"
    cfdOpen,      \* the miss socket is open
    clog,         \* history: the callbacks invoked, in order
    crecvs        \* history: receive calls made

cvars == <<cpc, cfdOpen, clog, crecvs>>

\* Building a netlink message: NlMsgBuilder
VARIABLES
    bpc,          \* "idle", "building", "stamping", "finished" or "panicked"
    bbuf,         \* nlmsg.buf: its length and capacity
    bopen,        \* positions of the PutNestedAttrs calls whose gen is running
    battrs,       \* the attributes closed in the buffer, with their nla.Len
    bcall,        \* the last builder call that returned, and its outcome
    bfin,         \* Finish has returned on this builder
    bres,         \* the message the last Finish of this builder returned
    bout          \* history: the sequence numbers that Finish calls stamped

bvars == <<bpc, bbuf, bopen, battrs, bcall, bfin, bres, bout>>

\* Splitting a datagram into messages: NlMsgParser
VARIABLES
    ppc,          \* "idle", "parsing", "end" or "failed"
    pdata,        \* the datagram: its size and the h.Len found at each offset
    ppos,         \* msg.pos
    pmsgs         \* history: the messages returned, as [start, end]

pvars == <<ppc, pdata, ppos, pmsgs>>

nvars == <<bvars, pvars>>

xvars == <<fvars, avars, flvars, lvars, cvars, nvars>>

vars == <<mvars, tvars, xvars>>

\* a vport event. self is a history tag: on a NEW event, that a set-upcall of
\* the pipeline caused it; on a DEL event, that the vport was deleted after
\* ConsumeMisses sent a set-upcall for it whose insert is still to come
Event(cmd, dp, id, self) == [cmd |-> cmd, dp |-> dp, id |-> id, self |-> self]

NoEvent == Event("NONE", ListenDp, 1, FALSE)

\* the orders in which a dump can list the vports of set S
Orders(S) == {s \in [1..Cardinality(S) -> S] : \A i, j \in 1..Cardinality(S) : s[i] = s[j] => i = j}

\* the kernel delivers an event to the vport-event socket once it has
\* joined the multicast group
Emit(q, e) == IF subscribed THEN Append(q, e) ELSE q

\* OVS_VPORT_CMD_SET with OVS_VPORT_ATTR_UPCALL_PID: fails with ENODEV for
\* a vport that does not exist, otherwise sets the upcall port id and
\* multicasts an OVS_VPORT_CMD_NEW event
KernelSetUpcallOk(k) == kexists[k]

KernelSetUpcall(k, pid, self) ==
    /\ issued' = [issued EXCEPT ![k] = @ + 1]
    /\ IF KernelSetUpcallOk(k)
       THEN /\ kupcall' = [kupcall EXCEPT ![k] = pid]
            /\ evq' = Emit(evq, Event("NEW", k[1], k[2], self))
            /\ setFailed' = setFailed
       ELSE /\ UNCHANGED <<kupcall, evq>>
            /\ setFailed' = [setFailed EXCEPT ![k] = TRUE]
    /\ UNCHANGED <<kexists, subscribed>>

\* the socket of the Dpif ConsumeMisses is called on, and the socket of the
\* Dpif that dp.dpif.Reopen() returned
DpifSock == "dp.dpif.sock"
VportDpifSock == "vportDpif.sock"

\* ConsumeMisses: dp.EnumerateVports() and setVportUpcallPortId(dp, vport.ID)
\* send on the socket of dp.dpif
FgRequestSock == DpifSock

\* a New that sends on the socket of the caller's Dpif
EvRequestSock_CallerDpif == DpifSock

\* New: setVportUpcallPortId(DatapathHandle{c.dpif, ifindex}, vport.ID) sends
\* on the socket of c.dpif, which is vportDpif
EvRequestSock == VportDpifSock

\* c.lock.Lock(); _, doneAlready := c.vportsDone[vport]; c.lock.Unlock()
doneAlready(vport) == vport \in vportsDone

MInit ==
    /\ kexists \in [Keys -> BOOLEAN]
    /\ \A v \in VportIds : ~kexists[<<OtherDp, v>>]
    /\ kupcall = [k \in Keys |-> NoUpcall]
    /\ subscribed = FALSE
    /\ evq = <<>>
    /\ missRunning = FALSE
    /\ fgpc = "start"
    /\ fgList = <<>>
    /\ fgv = 1
    /\ evpc = "idle"
    /\ evcur = NoEvent
    /\ vportsDone = {}
    /\ issued = [k \in Keys |-> 0]
    /\ preExisting = {v \in VportIds : kexists[<<ListenDp, v>>]}
    /\ extOps = 0
    /\ enumerated = {}
    /\ staleIn = {}
    /\ fgStale = FALSE
    /\ retrig = FALSE
    /\ delivered = [k \in Keys |-> FALSE]
    /\ setFailed = [k \in Keys |-> FALSE]
    /\ reqSocks = [fg |-> {}, ev |-> {}]

\* ConsumeMisses with the call of ConsumeVportEvents left out
AfterReopen_NoSubscription == "enumerate"

\* the order of the steps of ConsumeMisses after the miss socket is open
AfterReopen == "subscribe"

AfterConsumeVportEvents == "enumerate"

\* ConsumeMisses: OpenNetlinkSocket and go consumeMisses(dp, sock, consumer)
FgOpenSocket ==
    /\ fgpc = "start"
    /\ \E ok \in BOOLEAN :
         IF ok THEN missRunning' = TRUE /\ fgpc' = "reopen"
               ELSE missRunning' = missRunning /\ fgpc' = "failed"
    /\ UNCHANGED <<kvars, fgList, fgv, evvars, vportsDone, hvars, tvars, xvars>>

\* ConsumeMisses: vportDpif, err := dp.dpif.Reopen()
FgReopen ==
    /\ fgpc = "reopen"
    /\ \E ok \in BOOLEAN : fgpc' = IF ok THEN AfterReopen ELSE "failed"
    /\ UNCHANGED <<kvars, missRunning, fgList, fgv, evvars, vportsDone, hvars,
                   tvars, xvars>>

\* ConsumeMisses: dp.dpif.ConsumeVportEvents(vportConsumer) joins the vport
\* multicast group on a socket of its own and starts the event goroutine
FgConsumeVportEvents ==
    /\ fgpc = "subscribe"
    /\ \E ok \in BOOLEAN :
         IF ok THEN subscribed' = TRUE /\ fgpc' = AfterConsumeVportEvents
               ELSE subscribed' = subscribed /\ fgpc' = "failed"
    /\ UNCHANGED <<kexists, kupcall, evq, missRunning, fgList, fgv, evvars,
                   vportsDone, hvars, tvars, xvars>>

\* ConsumeMisses: vports, err := dp.EnumerateVports()
FgEnumerateVports ==
    /\ fgpc = "enumerate"
    /\ \E ok \in BOOLEAN :
         IF ok
         THEN /\ fgList' \in Orders({v \in VportIds : kexists[<<ListenDp, v>>]})
              /\ enumerated' = {v \in VportIds : kexists[<<ListenDp, v>>]}
              /\ fgpc' = "loop"
         ELSE /\ fgList' = fgList
              /\ enumerated' = enumerated
              /\ fgpc' = "failed"
    /\ reqSocks' = [reqSocks EXCEPT !.fg = @ \cup {FgRequestSock}]
    /\ UNCHANGED <<kvars, missRunning, fgv, evvars, vportsDone, issued,
                   preExisting, extOps, staleIn, fgStale, retrig, delivered,
                   setFailed, tvars, xvars>>

\* the loop of ConsumeMisses, and the first critical section of
\* setVportUpcallPortId for the next vport
FgCheck ==
    /\ fgpc = "loop"
    /\ fgList # <<>>
    /\ fgList' = Tail(fgList)
    /\ fgv' = Head(fgList)
    /\ fgpc' = IF doneAlready(Head(fgList)) THEN "loop" ELSE "issue"
    /\ fgStale' = FALSE
    /\ UNCHANGED <<kvars, missRunning, evvars, vportsDone, issued, preExisting, reqSocks,
                   extOps, enumerated, staleIn, retrig, delivered, setFailed,
                   tvars, xvars>>

\* setVportUpcallPortId: dp.setVportUpcallPortId(vport, c.upcallPortId)
FgIssue ==
    /\ fgpc = "issue"
    /\ KernelSetUpcall(<<ListenDp, fgv>>, upcallPortId, TRUE)
    /\ fgpc' = IF KernelSetUpcallOk(<<ListenDp, fgv>>) THEN "insert" ELSE "failed"
    /\ reqSocks' = [reqSocks EXCEPT !.fg = @ \cup {FgRequestSock}]
    /\ UNCHANGED <<missRunning, fgList, fgv, evvars, vportsDone, preExisting,
                   extOps, enumerated, staleIn, fgStale, retrig, delivered,
                   tvars, xvars>>

\* setVportUpcallPortId: c.lock.Lock(); c.vportsDone[vport] = struct{}{}
FgInsert ==
    /\ fgpc = "insert"
    /\ vportsDone' = vportsDone \cup {fgv}
    /\ staleIn' = IF fgStale THEN staleIn \cup {fgv} ELSE staleIn \ {fgv}
    /\ fgpc' = "loop"
    /\ UNCHANGED <<kvars, missRunning, fgList, fgv, evvars, issued, preExisting, reqSocks,
                   extOps, enumerated, fgStale, retrig, delivered, setFailed,
                   tvars, xvars>>

\* ConsumeMisses: return nil
FgReturn ==
    /\ fgpc = "loop"
    /\ fgList = <<>>
    /\ fgpc' = "returned"
    /\ UNCHANGED <<kvars, missRunning, fgList, fgv, evvars, vportsDone, hvars,
                   tvars, xvars>>

\* the vport-event goroutine receives an OVS_VPORT_CMD_NEW event and calls
\* missVportConsumer.New, which runs the first critical section of
\* setVportUpcallPortId
EvNew ==
    /\ evpc = "idle"
    /\ evq # <<>>
    /\ Head(evq).cmd = "NEW"
    /\ evq' = Tail(evq)
    /\ IF doneAlready(Head(evq).id)
       THEN evpc' = "idle" /\ evcur' = NoEvent
       ELSE evpc' = "issue" /\ evcur' = Head(evq)
    /\ delivered' = [delivered EXCEPT ![<<Head(evq).dp, Head(evq).id>>] = TRUE]
    /\ UNCHANGED <<kexists, kupcall, subscribed, fgvars, vportsDone, issued,
                   preExisting, reqSocks, extOps, enumerated, staleIn, fgStale, retrig,
                   setFailed, tvars, xvars>>

\* New: setVportUpcallPortId(DatapathHandle{c.dpif, ifindex}, vport.ID),
\* the request; an error goes to Error(err, false) and the loop goes on
EvIssue ==
    /\ evpc = "issue"
    /\ KernelSetUpcall(<<evcur.dp, evcur.id>>, upcallPortId, TRUE)
    /\ IF KernelSetUpcallOk(<<evcur.dp, evcur.id>>)
       THEN evpc' = "insert" /\ evcur' = evcur
       ELSE evpc' = "idle" /\ evcur' = NoEvent
    /\ retrig' = (retrig \/ evcur.self)
    /\ reqSocks' = [reqSocks EXCEPT !.ev = @ \cup {EvRequestSock}]
    /\ UNCHANGED <<fgvars, vportsDone, preExisting, extOps, enumerated,
                   staleIn, fgStale, delivered, tvars, xvars>>

\* New: the second critical section of setVportUpcallPortId
EvInsert ==
    /\ evpc = "insert"
    /\ vportsDone' = vportsDone \cup {evcur.id}
    /\ staleIn' = staleIn \ {evcur.id}
    /\ evpc' = "idle"
    /\ evcur' = NoEvent
    /\ UNCHANGED <<kvars, fgvars, issued, preExisting, reqSocks, extOps, enumerated,
                   fgStale, retrig, delivered, setFailed, tvars, xvars>>

\* the vport-event goroutine receives an OVS_VPORT_CMD_DEL event and calls
\* missVportConsumer.Delete
EvDelete ==
    /\ evpc = "idle"
    /\ evq # <<>>
    /\ Head(evq).cmd = "DEL"
    /\ evq' = Tail(evq)
    /\ vportsDone' = vportsDone \ {Head(evq).id}
    /\ staleIn' = staleIn \ {Head(evq).id}
    /\ fgStale' = (fgStale \/ (Head(evq).self /\ fgpc = "insert"
                                 /\ fgv = Head(evq).id))
    /\ UNCHANGED <<kexists, kupcall, subscribed, fgvars, evvars, issued,
                   preExisting, reqSocks, extOps, enumerated, retrig, delivered,
                   setFailed, tvars, xvars>>

\* another program adds a vport: the kernel multicasts OVS_VPORT_CMD_NEW
ExtAddVport ==
    /\ extOps < MaxExternal
    /\ \E k \in Keys :
        /\ ~kexists[k]
        /\ kexists' = [kexists EXCEPT ![k] = TRUE]
        /\ kupcall' = [kupcall EXCEPT ![k] = NoUpcall]
        /\ evq' = Emit(evq, Event("NEW", k[1], k[2], FALSE))
        /\ delivered' = [delivered EXCEPT ![k] = FALSE]
        /\ setFailed' = [setFailed EXCEPT ![k] = FALSE]
    /\ extOps' = extOps + 1
    /\ UNCHANGED <<subscribed, fgvars, evvars, vportsDone, issued, preExisting, reqSocks,
                   enumerated, staleIn, fgStale, retrig, tvars, xvars>>

\* another program deletes a vport: the kernel multicasts OVS_VPORT_CMD_DEL
ExtDelVport ==
    /\ extOps < MaxExternal
    /\ \E k \in Keys :
        /\ kexists[k]
        /\ kexists' = [kexists EXCEPT ![k] = FALSE]
        /\ kupcall' = [kupcall EXCEPT ![k] = NoUpcall]
        /\ evq' = Emit(evq, Event("DEL", k[1], k[2],
                                  fgpc = "insert" /\ k = <<ListenDp, fgv>>))
        /\ delivered' = [delivered EXCEPT ![k] = FALSE]
        /\ setFailed' = [setFailed EXCEPT ![k] = FALSE]
    /\ extOps' = extOps + 1
    /\ UNCHANGED <<subscribed, fgvars, evvars, vportsDone, issued, preExisting, reqSocks,
                   enumerated, staleIn, fgStale, retrig, tvars, xvars>>

----------------------------------------------------------------------------
(* The transport: NetlinkSocket.Request, RequestMulti and send *)

\* s.Pid() of the socket, and the port id of some other socket
SockPid == "pid"
OtherPid == "otherpid"

ENODEV == 19

Msg(pid, seq, typ, errno, id, trunc) ==
    [pid |-> pid, seq |-> seq, typ |-> typ, errno |-> errno, id |-> id,
     trunc |-> trunc]

NoMsg == Msg(SockPid, 0, "NONE", 0, 0, FALSE)

\* a message whose declared length exceeds the bytes of its datagram
TruncMsg == Msg(SockPid, 0, "DATA", 0, 0, TRUE)

Err(kind, errno) == [kind |-> kind, errno |-> errno]

NoErr == Err("nil", 0)

Res(op, seq, status, err, msg) ==
    [op |-> op, seq |-> seq, status |-> status, err |-> err, msg |-> msg]

NoRes == Res("none", 0, "none", NoErr, NoMsg)

\* a Finish that reads the counter and leaves it as it is
Finish_NoAdd == nextSeqNo

\* Finish: seq = atomic.AddUint32(&nextSeqNo, 1); the counter is a uint32
\* and the calls modelled stay far below its wrap-around
Finish == nextSeqNo + 1

\* nextNlMsg on the i-th message of datagram d: nil at the end, an error
\* for a truncated message, else the message
nextNlMsg(d, i) ==
    IF i > Len(d) THEN [kind |-> "nil", msg |-> NoMsg]
    ELSE IF d[i].trunc THEN [kind |-> "err", msg |-> NoMsg]
    ELSE [kind |-> "msg", msg |-> d[i]]

\* checkHeader treating a sequence number mismatch as an error
checkHeader_SeqFatal(m, expectedSeq) ==
    IF m.pid # SockPid THEN "pidmismatch"
    ELSE IF m.seq # expectedSeq THEN "pidmismatch"
    ELSE IF m.typ = "ERROR" /\ m.errno # 0 THEN "neterr"
    ELSE "ok"

\* checkHeader without the comparison of sequence numbers
checkHeader_NoSeqCheck(m, expectedSeq) ==
    IF m.pid # SockPid THEN "pidmismatch"
    ELSE IF m.typ = "ERROR" /\ m.errno # 0 THEN "neterr"
    ELSE "ok"

\* checkHeader taking a message for another port id as one to ignore
checkHeader_PidIgnored(m, expectedSeq) ==
    IF m.pid # SockPid THEN "ignore"
    ELSE IF m.seq # expectedSeq THEN "ignore"
    ELSE IF m.typ = "ERROR" /\ m.errno # 0 THEN "neterr"
    ELSE "ok"

\* checkHeader: a port id mismatch is an error, a sequence number mismatch
\* gives (nil, nil), an NLMSG_ERROR with a nonzero code is a NetlinkError
checkHeader(m, expectedSeq) ==
    IF m.pid # SockPid THEN "pidmismatch"
    ELSE IF m.seq # expectedSeq THEN "ignore"
    ELSE IF m.typ = "ERROR" /\ m.errno # 0 THEN "neterr"
    ELSE "ok"

Step(kind, err, msg, cs) == [kind |-> kind, err |-> err, msg |-> msg, calls |-> cs]

\* Request giving up at a datagram whose first message carries another
\* sequence number
requestStep_StrayEnds(d, seq) ==
    LET m1 == nextNlMsg(d, 1) IN
    IF m1.kind = "err" THEN Step("err", Err("truncated", 0), NoMsg, <<>>)
    ELSE IF m1.kind = "nil" THEN Step("err", Err("missing", 0), NoMsg, <<>>)
    ELSE LET h == checkHeader(m1.msg, seq) IN
         IF h = "pidmismatch" THEN Step("err", Err("pidmismatch", 0), NoMsg, <<>>)
         ELSE IF h = "neterr" THEN Step("err", Err("netlink", m1.msg.errno), NoMsg, <<>>)
         ELSE IF h = "ignore" THEN Step("err", Err("unexpected", 0), NoMsg, <<>>)
         ELSE Step("ok", NoErr, m1.msg, <<>>)

\* one iteration of the loop of Request on the datagram recv returned
requestStep(d, seq) ==
    LET m1 == nextNlMsg(d, 1) IN
    IF m1.kind = "err" THEN Step("err", Err("truncated", 0), NoMsg, <<>>)
    ELSE IF m1.kind = "nil" THEN Step("err", Err("missing", 0), NoMsg, <<>>)
    ELSE LET h == checkHeader(m1.msg, seq) IN
         IF h = "pidmismatch" THEN Step("err", Err("pidmismatch", 0), NoMsg, <<>>)
         ELSE IF h = "neterr" THEN Step("err", Err("netlink", m1.msg.errno), NoMsg, <<>>)
         ELSE IF h = "ignore" THEN Step("continue", NoErr, NoMsg, <<>>)
         ELSE LET extra == nextNlMsg(d, 2) IN
              IF extra.kind = "err" THEN Step("err", Err("truncated", 0), NoMsg, <<>>)
              ELSE IF extra.kind = "msg" THEN Step("err", Err("unexpected", 0), NoMsg, <<>>)
              ELSE Step("ok", NoErr, m1.msg, <<>>)

\* the dump consumer handed to RequestMulti returns an error on its fa-th
\* invocation
consumerFails(n, fa) == fa # 0 /\ n = fa

\* RequestMulti looking only at the first message of a datagram, as Request
\* does
multiWalk_FirstOnly(d, i, seq, cs, fa) ==
    LET nm == nextNlMsg(d, i) IN
    IF nm.kind = "err" THEN Step("err", Err("truncated", 0), NoMsg, cs)
    ELSE IF nm.kind = "nil" THEN Step("err", Err("missing", 0), NoMsg, cs)
    ELSE LET h == checkHeader(nm.msg, seq) IN
         IF h = "pidmismatch" THEN Step("err", Err("pidmismatch", 0), NoMsg, cs)
         ELSE IF h = "neterr" THEN Step("err", Err("netlink", nm.msg.errno), NoMsg, cs)
         ELSE IF h = "ignore" THEN Step("continue", NoErr, NoMsg, cs)
         ELSE IF nm.msg.typ = "DONE" THEN Step("ok", NoErr, NoMsg, cs)
         ELSE IF consumerFails(Len(cs) + 1, fa)
              THEN Step("err", Err("consumer", 0), NoMsg, Append(cs, nm.msg))
              ELSE Step("continue", NoErr, NoMsg, Append(cs, nm.msg))

\* RequestMulti dropping the error its consumer returns
RECURSIVE multiWalk_IgnoreConsumerError(_, _, _, _, _)
multiWalk_IgnoreConsumerError(d, i, seq, cs, fa) ==
    LET nm == nextNlMsg(d, i) IN
    IF nm.kind = "err" THEN Step("err", Err("truncated", 0), NoMsg, cs)
    ELSE IF nm.kind = "nil"
    THEN IF i = 1 THEN Step("err", Err("missing", 0), NoMsg, cs)
                  ELSE Step("continue", NoErr, NoMsg, cs)
    ELSE LET h == checkHeader(nm.msg, seq) IN
         IF h = "pidmismatch" THEN Step("err", Err("pidmismatch", 0), NoMsg, cs)
         ELSE IF h = "neterr" THEN Step("err", Err("netlink", nm.msg.errno), NoMsg, cs)
         ELSE IF h = "ignore" THEN multiWalk_IgnoreConsumerError(d, i + 1, seq, cs, fa)
         ELSE IF nm.msg.typ = "DONE" THEN Step("ok", NoErr, NoMsg, cs)
         ELSE multiWalk_IgnoreConsumerError(d, i + 1, seq, Append(cs, nm.msg), fa)

\* one iteration of the outer loop of RequestMulti on the datagram recv
\* returned, from its i-th message on; cs are the consumer's invocations so far
RECURSIVE multiWalk(_, _, _, _, _)
multiWalk(d, i, seq, cs, fa) ==
    LET nm == nextNlMsg(d, i) IN
    IF nm.kind = "err" THEN Step("err", Err("truncated", 0), NoMsg, cs)
    ELSE IF nm.kind = "nil"
    THEN IF i = 1 THEN Step("err", Err("missing", 0), NoMsg, cs)
                  ELSE Step("continue", NoErr, NoMsg, cs)
    ELSE LET h == checkHeader(nm.msg, seq) IN
         IF h = "pidmismatch" THEN Step("err", Err("pidmismatch", 0), NoMsg, cs)
         ELSE IF h = "neterr" THEN Step("err", Err("netlink", nm.msg.errno), NoMsg, cs)
         ELSE IF h = "ignore" THEN multiWalk(d, i + 1, seq, cs, fa)
         ELSE IF nm.msg.typ = "DONE" THEN Step("ok", NoErr, NoMsg, cs)
         ELSE IF consumerFails(Len(cs) + 1, fa)
              THEN Step("err", Err("consumer", 0), NoMsg, Append(cs, nm.msg))
              ELSE multiWalk(d, i + 1, seq, Append(cs, nm.msg), fa)

\* the ways of cutting the message sequence L into datagrams
RECURSIVE Splits(_)
Splits(L) ==
    IF L = <<>> THEN {<<>>}
    ELSE UNION {{<<SubSeq(L, 1, n)>> \o rest :
                    rest \in Splits(SubSeq(L, n + 1, Len(L)))} : n \in 1..Len(L)}

\* the kernel's answer to a request sent with RequestFlags: one datagram
\* with the response, an ack or an error
RequestReplies(seq) ==
    {<<Msg(SockPid, seq, "DATA", 0, 1, FALSE)>>,
     <<Msg(SockPid, seq, "ERROR", 0, 0, FALSE)>>,
     <<Msg(SockPid, seq, "ERROR", ENODEV, 0, FALSE)>>}

\* the response in one datagram with a message that precedes it and carries
\* the sequence number of no request
CoalescedReplies(seq) ==
    {<<Msg(SockPid, 0, "DATA", 0, 1, FALSE), Msg(SockPid, seq, "DATA", 0, 1, FALSE)>>}

DumpMsgs(seq, K) ==
    [i \in 1..(K + 1) |-> IF i <= K THEN Msg(SockPid, seq, "DATA", 0, i, FALSE)
                                   ELSE Msg(SockPid, seq, "DONE", 0, 0, FALSE)]

\* the kernel's answer to a request sent with DumpFlags: an error (K < 0), or
\* K messages and NLMSG_DONE in any number of datagrams
DumpReplies(seq, K) ==
    IF K < 0 THEN {<< <<Msg(SockPid, seq, "ERROR", ENODEV, 0, FALSE)>> >>}
    ELSE Splits(DumpMsgs(seq, K))

\* OVS_PACKET_CMD_EXECUTE is answered only when it fails
ExecuteReplies(seq) ==
    {<<>>, << <<Msg(SockPid, seq, "ERROR", ENODEV, 0, FALSE)>> >>}

\* datagrams that answer no request of this socket: one from another port
\* id that carries the sequence number s of the next request, one that is
\* cut short
StrayDatagrams(s) ==
    {<<Msg(OtherPid, s, "DATA", 0, 1, FALSE)>>, <<TruncMsg>>}

TIdle ==
    /\ nextSeqNo = 0
    /\ sockq = <<>>
    /\ tpc = "idle"
    /\ tseq = 0
    /\ failAt = 0
    /\ calls = <<>>
    /\ tres = NoRes
    /\ feed = <<>>
    /\ nops = 0
    /\ nstray = 0

\* Request: send
TRequest ==
    /\ tpc = "idle"
    /\ nops < MaxOps
    /\ nextSeqNo' = Finish
    /\ nops' = nops + 1
    /\ calls' = <<>>
    /\ failAt' = 0
    /\ tseq' = Finish
    /\ \E ok \in BOOLEAN :
         IF ok
         THEN /\ \E r \in RequestReplies(Finish) \cup CoalescedReplies(Finish) :
                    sockq' = Append(sockq, r)
              /\ tpc' = "request"
              /\ tres' = NoRes
         ELSE /\ sockq' = sockq
              /\ tpc' = "idle"
              /\ tres' = Res("request", Finish, "err", Err("send", 0), NoMsg)
    /\ feed' = sockq'
    /\ UNCHANGED <<nstray, mvars, xvars>>

\* Request: one turn of the receive loop (a failing recv system call is
\* not modelled: the raw socket is outside the model)
TRequestRecv ==
    /\ tpc = "request"
    /\ sockq # <<>>
    /\ sockq' = Tail(sockq)
    /\ LET r == requestStep(Head(sockq), tseq) IN
         IF r.kind = "continue"
         THEN UNCHANGED <<tpc, tres>>
         ELSE /\ tpc' = "idle"
              /\ tres' = Res("request", tseq, r.kind, r.err, r.msg)
    /\ UNCHANGED <<nextSeqNo, tseq, failAt, calls, feed, nops, nstray, mvars, xvars>>

\* RequestMulti: send
TRequestMulti ==
    /\ tpc = "idle"
    /\ nops < MaxOps
    /\ nextSeqNo' = Finish
    /\ nops' = nops + 1
    /\ calls' = <<>>
    /\ tseq' = Finish
    /\ \E ok \in BOOLEAN :
         IF ok
         THEN /\ \E K \in -1..MaxDump :
                   /\ \E r \in DumpReplies(Finish, K) : sockq' = sockq \o r
                   /\ failAt' \in 0..(IF K < 0 THEN 0 ELSE K)
              /\ tpc' = "multi"
              /\ tres' = NoRes
         ELSE /\ sockq' = sockq
              /\ failAt' = 0
              /\ tpc' = "idle"
              /\ tres' = Res("multi", Finish, "err", Err("send", 0), NoMsg)
    /\ feed' = sockq'
    /\ UNCHANGED <<nstray, mvars, xvars>>

\* RequestMulti: one turn of the outer receive loop
TMultiRecv ==
    /\ tpc = "multi"
    /\ sockq # <<>>
    /\ sockq' = Tail(sockq)
    /\ LET r == multiWalk(Head(sockq), 1, tseq, calls, failAt) IN
         /\ calls' = r.calls
         /\ IF r.kind = "continue"
            THEN UNCHANGED <<tpc, tres>>
            ELSE /\ tpc' = "idle"
                 /\ tres' = Res("multi", tseq, r.kind, r.err, NoMsg)
    /\ UNCHANGED <<nextSeqNo, tseq, failAt, feed, nops, nstray, mvars, xvars>>

\* DatapathHandle.Execute: dpif.sock.send(req), nothing is received
TExecute ==
    /\ tpc = "idle"
    /\ nops < MaxOps
    /\ nextSeqNo' = Finish
    /\ nops' = nops + 1
    /\ feed' = <<>>
    /\ calls' = <<>>
    /\ failAt' = 0
    /\ tseq' = Finish
    /\ \E ok \in BOOLEAN :
         IF ok
         THEN /\ \E r \in ExecuteReplies(Finish) : sockq' = sockq \o r
              /\ tres' = Res("execute", Finish, "ok", NoErr, NoMsg)
         ELSE /\ sockq' = sockq
              /\ tres' = Res("execute", Finish, "err", Err("send", 0), NoMsg)
    /\ UNCHANGED <<tpc, nstray, mvars, xvars>>

\* a datagram that answers no request of this socket arrives
KernelStray ==
    /\ nstray < MaxStray
    /\ nstray' = nstray + 1
    /\ tpc = "idle"
    /\ \E d \in StrayDatagrams(Finish) : sockq' = Append(sockq, d)
    /\ UNCHANGED <<nextSeqNo, tpc, tseq, failAt, calls, tres, feed, nops, mvars, xvars>>

TransportNext ==
    \/ TRequest
    \/ TRequestRecv
    \/ TRequestMulti
    \/ TMultiRecv
    \/ TExecute
    \/ KernelStray

----------------------------------------------------------------------------
PipelineNext ==
    \/ FgOpenSocket
    \/ FgReopen
    \/ FgConsumeVportEvents
    \/ FgEnumerateVports
    \/ FgCheck
    \/ FgIssue
    \/ FgInsert
    \/ FgReturn
    \/ EvNew
    \/ EvIssue
    \/ EvInsert

MissNext ==
    \/ PipelineNext
    \/ EvDelete
    \/ ExtAddVport
    \/ ExtDelVport


----------------------------------------------------------------------------
(* Flow keys, actions and flow specs: flow.go *)

\* the key types of flowKeyParsers
KeyTypes == {"PRIORITY", "IN_PORT", "ETHERNET", "ETHERTYPE", "SKB_MARK", "TUNNEL"}

\* a byte slice is modelled by a two-bit number: ZeroBlob is all bytes 0,
\* ExactBlob is all bytes 0xff
BlobVals == 0..3
ZeroBlob == 0
ExactBlob == 3

BitAnd(a, b) == ((a % 2) * (b % 2)) + 2 * ((a \div 2) * (b \div 2))
BitXor(a, b) == (((a % 2) + (b % 2)) % 2) + 2 * (((a \div 2) + (b \div 2)) % 2)

\* AllBytes(data, x) for x = 0 ("00") and x = 0xff ("ff")
AllBytes(data, x) == IF x = "00" THEN data = ZeroBlob ELSE data = ExactBlob

\* TunnelAttrs: one field of each kind. TunnelId stands for the byte-array
\* fields (TunnelId, Ipv4Src, Ipv4Dst), Tos for the uint8 fields (Tos, Ttl),
\* Df for the flags (Df, Csum); a field is 0 or 1
TunnelId == 1
Tos == 2
Df == 3
TunnelFieldIds == {TunnelId, Tos, Df}
TunnelAttrs == {<<i, t, d>> : i \in 0..1, t \in 0..1, d \in 0..1}
ZeroTunnelAttrs == <<0, 0, 0>>
ExactTunnelAttrsMask == <<1, 1, 1>>

\* a flow key: key and mask are <<blob>> for the blob keys and TunnelAttrs
\* for the tunnel key
FlowKey(typ, key, mask) == [typ |-> typ, key |-> key, mask |-> mask]

NoFlowKey == FlowKey("NONE", <<ZeroBlob>>, <<ZeroBlob>>)

\* NewBlobFlowKey and the constructors built on it, with any key and mask
BlobFlowKeys(typ) == {FlowKey(typ, <<k>>, <<m>>) : k \in BlobVals, m \in BlobVals}

\* NewInPortFlowKey: the mask stays 0xff
InPortFlowKeys == {FlowKey("IN_PORT", <<k>>, <<ExactBlob>>) : k \in BlobVals}

\* NewTunnelFlowKey
TunnelFlowKeys == {FlowKey("TUNNEL", k, m) : k \in TunnelAttrs, m \in TunnelAttrs}

FlowKeysOf(typ) ==
    CASE typ = "IN_PORT" -> InPortFlowKeys
      [] typ = "TUNNEL" -> TunnelFlowKeys
      [] OTHER -> BlobFlowKeys(typ)

\* an Ignored that no key satisfies
Ignored_Never(k) == FALSE

\* an Ignored that goes by the mask for the ethernet key too
Ignored_MaskOnly(k) ==
    IF k.typ = "TUNNEL" THEN k.mask = ZeroTunnelAttrs
    ELSE AllBytes(k.mask[1], "00")

\* BlobFlowKey.Ignored, EthernetFlowKey.Ignored, TunnelFlowKey.Ignored
Ignored(k) ==
    CASE k.typ = "ETHERNET" -> FALSE
      [] k.typ = "TUNNEL" -> k.mask = ZeroTunnelAttrs
      [] OTHER -> AllBytes(k.mask[1], "00")

\* BlobFlowKey.Equals, TunnelFlowKey.Equals
KeyEquals(a, b) ==
    IF a.typ = "TUNNEL"
    THEN b.typ = "TUNNEL" /\ a.key = b.key /\ a.mask = b.mask
    ELSE /\ b.typ # "TUNNEL"
         /\ a.mask[1] = b.mask[1]
         /\ BitAnd(BitXor(a.key[1], b.key[1]), a.mask[1]) = 0

\* FlowKeys.Equals; a FlowKeys map is a function on the types it holds
FlowKeysEquals(a, b) ==
    /\ \A id \in DOMAIN a :
          IF id \in DOMAIN b THEN KeyEquals(a[id], b[id]) ELSE Ignored(a[id])
    /\ \A id \in DOMAIN b :
          id \notin DOMAIN a => Ignored(b[id])

EmptyAttrs == [i \in {} |-> 0]

\* TunnelAttrs.present
present(ta) == ta

\* TunnelAttrs.toNlAttrs: the nested attributes, a function on the fields
\* that are put in the message (the flag attributes are empty)
tunnelToNlAttrs(ta, pres) ==
    LET put == {i \in TunnelFieldIds :
                   IF i = Df THEN pres[i] = 1 /\ ta[i] = 1 ELSE pres[i] = 1}
    IN [i \in put |-> IF i = Df THEN 0 ELSE ta[i]]

\* parseTunnelAttrs: a field without attribute is zero, a flag is set when
\* its attribute is there
parseTunnelAttrs(data) ==
    [i \in 1..3 |-> IF i \in DOMAIN data
                    THEN (IF i = Df THEN 1 ELSE data[i])
                    ELSE 0]

putKeyNlAttr(k) ==
    IF k.typ = "TUNNEL" THEN tunnelToNlAttrs(k.key, present(k.mask)) ELSE k.key

putMaskNlAttr(k) ==
    IF k.typ = "TUNNEL" THEN tunnelToNlAttrs(k.mask, present(k.mask)) ELSE k.mask

\* the outcome of a parser
Parsed(ok, val) == [ok |-> ok, val |-> val]

\* parseBlobFlowKey; key is <<>> for a nil key, <<data>> otherwise
parseBlobFlowKey(typ, key, mask) ==
    IF key = <<>> /\ ~AllBytes(mask[1], "00")
    THEN Parsed(FALSE, NoFlowKey)
    ELSE Parsed(TRUE, FlowKey(typ, IF key = <<>> THEN <<ZeroBlob>> ELSE key[1], mask))

\* parseInPortFlowKey: any mask other than 0xffffffff means ignored
parseInPortFlowKey(typ, key, mask) ==
    parseBlobFlowKey(typ, key,
                     IF AllBytes(mask[1], "ff") THEN mask ELSE <<ZeroBlob>>)

\* parseTunnelFlowKey; key and mask are <<>> for nil, <<attrs>> otherwise.
\* A nil mask means an exact match; a mask without key is taken as it is
parseTunnelFlowKey(typ, key, mask) ==
    Parsed(TRUE, FlowKey(typ,
                         IF key = <<>> THEN ZeroTunnelAttrs
                                       ELSE parseTunnelAttrs(key[1]),
                         IF mask = <<>> THEN ExactTunnelAttrsMask
                                        ELSE parseTunnelAttrs(mask[1])))

\* flowKeyParsers[typ].parse; mask is <<>> for nil, <<data>> otherwise, and
\* the blob parsers are never handed a nil mask
parseKey(typ, key, mask) ==
    CASE typ = "IN_PORT" -> parseInPortFlowKey(typ, key, mask[1])
      [] typ = "TUNNEL" -> parseTunnelFlowKey(typ, key, mask)
      [] OTHER -> parseBlobFlowKey(typ, key, mask[1])

\* an ignoreMask that asks for an exact match
ignoreMask_Exact(typ) == IF typ = "TUNNEL" THEN <<>> ELSE << <<ExactBlob>> >>

\* flowKeyParsers[typ].ignoreMask: zero bytes for the blob keys, an empty
\* attribute set for the tunnel key
ignoreMask(typ) == IF typ = "TUNNEL" THEN <<EmptyAttrs>> ELSE << <<ZeroBlob>> >>

\* flowKeyParsers[typ].exactMask: 0xff bytes for the blob keys, nil for the
\* tunnel key
exactMask(typ) == IF typ = "TUNNEL" THEN <<>> ELSE << <<ExactBlob>> >>

\* parseFlowKeys(keys, masks, flowKeyParsers); masks is <<>> when the
\* message has no mask attribute set (masks == nil), <<set>> otherwise. A
\* type without parser, in the keys or in the masks, is an error
parseFlowKeys(keys, masks) ==
    LET maskTypes == IF masks = <<>> THEN {} ELSE DOMAIN masks[1]
        types == (DOMAIN keys) \cup maskTypes
        one(typ) ==
            IF typ \in DOMAIN keys
            THEN parseKey(typ, <<keys[typ]>>,
                          IF masks = <<>> THEN exactMask(typ)
                          ELSE IF typ \in maskTypes THEN <<masks[1][typ]>>
                          ELSE ignoreMask(typ))
            ELSE parseKey(typ, <<>>, <<masks[1][typ]>>)
    IN IF \E typ \in types : typ \notin KeyTypes
       THEN Parsed(FALSE, EmptyAttrs)
       ELSE IF \A typ \in types : one(typ).ok
       THEN Parsed(TRUE, [typ \in types |-> one(typ).val])
       ELSE Parsed(FALSE, EmptyAttrs)

\* actions: OutputAction and SetTunnelAction
Action(typ, port, ta, pres) == [typ |-> typ, port |-> port, ta |-> ta, pres |-> pres]

OutputActions == {Action("OUTPUT", p, ZeroTunnelAttrs, ZeroTunnelAttrs) : p \in 1..2}

\* SetTunnelAction: pres holds TunnelIdPresent and TosPresent (there is no
\* presence field for the flags)
SetTunnelActions ==
    {Action("SET", 0, ta, <<ip, tp, 0>>) : ta \in TunnelAttrs, ip \in 0..1, tp \in 0..1}

Actions == OutputActions \cup SetTunnelActions

\* OutputAction.toNlAttr, SetTunnelAction.toNlAttr
toNlAttr(a) ==
    [typ |-> a.typ,
     val |-> IF a.typ = "OUTPUT" THEN <<a.port>>
             ELSE tunnelToNlAttrs(a.ta, <<a.pres[TunnelId], a.pres[Tos], a.ta[Df]>>)]

\* parseOutputAction, parseSetAction
parseAction(attr) ==
    IF attr.typ = "OUTPUT"
    THEN Action("OUTPUT", attr.val[1], ZeroTunnelAttrs, ZeroTunnelAttrs)
    ELSE Action("SET", 0, parseTunnelAttrs(attr.val),
                <<IF TunnelId \in DOMAIN attr.val THEN 1 ELSE 0,
                  IF Tos \in DOMAIN attr.val THEN 1 ELSE 0, 0>>)

\* OutputAction.Equals, SetTunnelAction.Equals
ActionEquals(a, b) ==
    /\ a.typ = b.typ
    /\ IF a.typ = "OUTPUT" THEN a.port = b.port ELSE a.ta = b.ta

FlowSpec(keys, actions) == [keys |-> keys, actions |-> actions]

NoFlowSpec == FlowSpec(EmptyAttrs, <<>>)

\* FlowSpec.toNlAttrs: OVS_FLOW_ATTR_KEY, OVS_FLOW_ATTR_MASK and
\* OVS_FLOW_ATTR_ACTIONS
toNlAttrs(f) ==
    LET put == {typ \in DOMAIN f.keys : ~Ignored(f.keys[typ])}
    IN [keys |-> [typ \in put |-> putKeyNlAttr(f.keys[typ])],
        masks |-> [typ \in put |-> putMaskNlAttr(f.keys[typ])],
        actions |-> [i \in 1..Len(f.actions) |-> toNlAttr(f.actions[i])]]

NoWire == [keys |-> EmptyAttrs, masks |-> EmptyAttrs, actions |-> <<>>]

\* the action types of actionParsers
ActionTypes == {"OUTPUT", "SET"}

\* DatapathHandle.parseFlowSpec, from the attributes on; a message without
\* OVS_FLOW_ATTR_MASK is a record without the masks field. An action type
\* without parser is an error
parseFlowSpec(attrs) ==
    LET ks == parseFlowKeys(attrs.keys,
                            IF "masks" \in DOMAIN attrs THEN <<attrs.masks>>
                                                        ELSE <<>>)
    IN IF ~ks.ok THEN Parsed(FALSE, NoFlowSpec)
       ELSE IF \E i \in 1..Len(attrs.actions) : attrs.actions[i].typ \notin ActionTypes
       THEN Parsed(FALSE, NoFlowSpec)
       ELSE Parsed(TRUE, FlowSpec(ks.val,
                [i \in 1..Len(attrs.actions) |-> parseAction(attrs.actions[i])]))

\* FlowSpec.Equals
FlowSpecEquals(a, b) ==
    /\ FlowKeysEquals(a.keys, b.keys)
    /\ Len(a.actions) = Len(b.actions)
    /\ \A i \in 1..Len(a.actions) :
          i <= Len(b.actions) => ActionEquals(a.actions[i], b.actions[i])

----------------------------------------------------------------------------
(* Building, encoding, decoding and comparing flow specs *)

\* of each key type, a key that is ignored and a key that matches exactly
CoreFlowKeysOf(typ) ==
    IF typ = "TUNNEL"
    THEN {FlowKey(typ, ExactTunnelAttrsMask, m) : m \in {ZeroTunnelAttrs, ExactTunnelAttrsMask}}
    ELSE IF typ = "IN_PORT"
    THEN {FlowKey(typ, <<ExactBlob>>, <<ExactBlob>>)}
    ELSE {FlowKey(typ, <<ExactBlob>>, <<m>>) : m \in {ZeroBlob, ExactBlob}}

RECURSIVE FlowKeysOn(_)
\* the FlowKeys maps that hold exactly the key types S: any key where S is
\* one type, and the keys of CoreFlowKeysOf where it is several
FlowKeysOn(S) ==
    IF S = {} THEN {EmptyAttrs}
    ELSE IF Cardinality(S) = 1
    THEN {[u \in S |-> k] : k \in FlowKeysOf(CHOOSE x \in S : TRUE)}
    ELSE LET t == CHOOSE x \in S : TRUE
         IN {[u \in S |-> IF u = t THEN k ELSE m[u]] :
                m \in IF Cardinality(S) = 2
                      THEN {[u \in S \ {t} |-> k] :
                               k \in CoreFlowKeysOf(CHOOSE x \in S \ {t} : TRUE)}
                      ELSE FlowKeysOn(S \ {t}),
                k \in CoreFlowKeysOf(t)}

\* FlowSpec.AddKey, called for up to MaxFlowKeys key types
FlowKeyMaps ==
    UNION {FlowKeysOn(S) : S \in {T \in SUBSET KeyTypes : Cardinality(T) <= MaxFlowKeys}}

\* FlowSpec.AddAction, called up to MaxActions times
ActionLists == UNION {[1..n -> Actions] : n \in 0..MaxActions}

EthernetOnly ==
    [t \in {"ETHERNET"} |-> FlowKey("ETHERNET", <<ZeroBlob>>, <<ExactBlob>>)]

\* the flow specs a caller builds: any keys with one output action, or an
\* exact ethernet key with any actions
FlowSpecs ==
    {FlowSpec(m, <<Action("OUTPUT", 1, ZeroTunnelAttrs, ZeroTunnelAttrs)>>) :
        m \in FlowKeyMaps}
    \cup {FlowSpec(EthernetOnly, as) : as \in ActionLists}

\* the maps that m is compared with: m without some of its key types
Restrictions(m) == {[t \in S |-> m[t]] : S \in SUBSET (DOMAIN m)}

FIdle ==
    /\ fpc = "idle"
    /\ fsa = NoFlowSpec
    /\ fsb = NoFlowSpec
    /\ fwire = NoWire
    /\ feq = FALSE

\* NewFlowSpec, AddKey, AddAction
FBuild ==
    /\ fpc = "idle"
    /\ \E f \in FlowSpecs : fsa' = f
    /\ fpc' = "built"
    /\ UNCHANGED <<fsb, fwire, feq, mvars, nvars, tvars, avars, flvars, lvars, cvars>>

\* FlowSpec.toNlAttrs
FToNlAttrs ==
    /\ fpc = "built"
    /\ fwire' = toNlAttrs(fsa)
    /\ fpc' = "encoded"
    /\ UNCHANGED <<fsa, fsb, feq, mvars, nvars, tvars, avars, flvars, lvars, cvars>>

\* parseFlowSpec on what toNlAttrs produced, and FlowSpec.Equals with the
\* original
FParseFlowSpec ==
    /\ fpc = "encoded"
    /\ LET r == parseFlowSpec(fwire)
       IN /\ fsb' = r.val
          /\ feq' = (r.ok /\ FlowSpecEquals(fsa, r.val))
    /\ fpc' = "parsed"
    /\ UNCHANGED <<fsa, fwire, mvars, nvars, tvars, avars, flvars, lvars, cvars>>

\* FlowKeys.Equals of the keys with a map that lacks some of the key types,
\* called on either side
FEquals ==
    /\ fpc = "built"
    /\ \E g \in Restrictions(fsa.keys), swap \in BOOLEAN :
          LET gs == FlowSpec(g, fsa.actions)
          IN /\ fsa' = (IF swap THEN gs ELSE fsa)
             /\ fsb' = (IF swap THEN fsa ELSE gs)
             /\ feq' = (IF swap THEN FlowKeysEquals(g, fsa.keys)
                                ELSE FlowKeysEquals(fsa.keys, g))
    /\ fpc' = "compared"
    /\ UNCHANGED <<fwire, mvars, nvars, tvars, avars, flvars, lvars, cvars>>

\* the value of one key or mask attribute in a message: a blob, or the
\* nested tunnel attributes (a flag attribute is empty)
WireValsOf(typ) ==
    IF typ = "TUNNEL"
    THEN UNION {[S -> 0..1] : S \in SUBSET {TunnelId, Tos}}
         \cup UNION {{[i \in S \cup {Df} |-> IF i = Df THEN 0 ELSE f[i]] :
                         f \in [S -> 0..1]} : S \in SUBSET {TunnelId, Tos}}
    ELSE {<<v>> : v \in BlobVals}

\* the flow messages handed to parseFlowSpec: one key type, in the key
\* set, the mask set or both, with or without a mask set at all
DecodeWires ==
    UNION {
        {[keys |-> [u \in {t} |-> k], actions |-> <<>>] : k \in WireValsOf(t)}
        \cup {[keys |-> [u \in {t} |-> k], masks |-> EmptyAttrs, actions |-> <<>>] :
                 k \in WireValsOf(t)}
        \cup {[keys |-> [u \in {t} |-> k], masks |-> [u \in {t} |-> m],
               actions |-> <<>>] : k \in WireValsOf(t), m \in WireValsOf(t)}
        \cup {[keys |-> EmptyAttrs, masks |-> [u \in {t} |-> m], actions |-> <<>>] :
                 m \in WireValsOf(t)}
        : t \in KeyTypes}

\* parseFlowSpec on a message of the kernel
FDecode ==
    /\ fpc = "idle"
    /\ \E w \in DecodeWires :
          LET r == parseFlowSpec(w)
          IN /\ fwire' = w
             /\ fsb' = r.val
             /\ feq' = r.ok
    /\ fpc' = "decoded"
    /\ UNCHANGED <<fsa, mvars, nvars, tvars, avars, flvars, lvars, cvars>>

\* FlowKey.Ignored on a key that was built or decoded
FKeyIgnored ==
    /\ \/ fpc = "built"
       \/ fpc = "decoded" /\ feq
    /\ LET src == IF fpc = "built" THEN fsa ELSE fsb
       IN \E t \in DOMAIN src.keys :
             /\ fsa' = FlowSpec([u \in {t} |-> src.keys[t]], <<>>)
             /\ feq' = Ignored(src.keys[t])
    /\ fsb' = NoFlowSpec
    /\ fpc' = "ignored"
    /\ UNCHANGED <<fwire, mvars, nvars, tvars, avars, flvars, lvars, cvars>>

\* FlowKey.Equals on two keys of one type
FKeyEquals ==
    /\ fpc = "idle"
    /\ \E t \in KeyTypes :
          \E a \in FlowKeysOf(t), b \in FlowKeysOf(t) :
             /\ fsa' = FlowSpec([u \in {t} |-> a], <<>>)
             /\ fsb' = FlowSpec([u \in {t} |-> b], <<>>)
             /\ feq' = KeyEquals(a, b)
    /\ fpc' = "keys"
    /\ UNCHANGED <<fwire, mvars, nvars, tvars, avars, flvars, lvars, cvars>>

FlowNext ==
    \/ FBuild
    \/ FToNlAttrs
    \/ FParseFlowSpec
    \/ FEquals
    \/ FDecode
    \/ FKeyIgnored
    \/ FKeyEquals

----------------------------------------------------------------------------
(* Decoding flows with unknown attribute types and wrong lengths *)

\* an attribute type that no parser table holds
UnknownType == "UNKNOWN"

\* the value of a well-formed attribute of a key type
KeyVal(typ) == IF typ = "TUNNEL" THEN [i \in {TunnelId} |-> 1] ELSE <<ExactBlob>>

\* the attributes under OVS_FLOW_ATTR_ACTIONS: an output action, a set-tunnel
\* action, an attribute of an unknown type
ActionAttrs ==
    {[typ |-> "OUTPUT", val |-> <<1>>],
     [typ |-> "SET", val |-> [i \in {TunnelId} |-> 1]],
     [typ |-> UnknownType, val |-> <<0>>]}

\* flow messages of the kernel with up to MaxFlowKeys key types, known or
\* not, at most one type in the mask set, and up to MaxActions actions
UnknownWires ==
    LET Types == KeyTypes \cup {UnknownType}
        KeySets == {K \in SUBSET Types : Cardinality(K) <= MaxFlowKeys}
        MaskSets == {M \in SUBSET Types : Cardinality(M) <= 1}
        Lists == UNION {[1..n -> ActionAttrs] : n \in 0..MaxActions}
    IN {[keys |-> [t \in K |-> KeyVal(t)], masks |-> [t \in M |-> KeyVal(t)],
         actions |-> as] : K \in KeySets, M \in MaskSets, as \in Lists}
       \cup {[keys |-> [t \in K |-> KeyVal(t)], actions |-> as] :
                K \in KeySets, as \in Lists}

\* the key types of flowKeyParsers in dpif.go
DatapathKeyTypes == {"PRIORITY", "ETHERNET"}

\* Datapath.parseFlowSpec of dpif.go, from the attributes on: both
\* OVS_FLOW_ATTR_KEY and OVS_FLOW_ATTR_MASK are required, a key type without
\* parser is printed and skipped, a key without mask is an exact match, and
\* the actions are not looked at
DatapathParseFlowSpec(attrs) ==
    IF "masks" \notin DOMAIN attrs THEN Parsed(FALSE, NoFlowSpec)
    ELSE LET types == (DOMAIN attrs.keys) \cap DatapathKeyTypes
         IN Parsed(TRUE,
                   FlowSpec([t \in types |->
                                FlowKey(t, attrs.keys[t],
                                        IF t \in DOMAIN attrs.masks
                                        THEN attrs.masks[t] ELSE <<ExactBlob>>)],
                            <<>>))

\* the attributes nested in OVS_KEY_ATTR_TUNNEL
TunnelKeyAttrs == {"ID", "IPV4_SRC", "IPV4_DST", "TOS", "TTL", "DONT_FRAGMENT", "CSUM"}

\* the size in bytes of the value of a tunnel attribute
TunnelAttrSize(a) ==
    CASE a = "ID" -> 8
      [] a \in {"IPV4_SRC", "IPV4_DST"} -> 4
      [] a \in {"TOS", "TTL"} -> 1
      [] OTHER -> 0

\* nested tunnel attributes, each given by the length of its value: the
\* right one, or one byte more
TunnelAttrLens ==
    UNION {{[a \in S |-> TunnelAttrSize(a) + (IF a \in W THEN 1 ELSE 0)] :
               W \in SUBSET S} : S \in SUBSET TunnelKeyAttrs}

\* Attrs.GetOptionalBytes, GetOptionalUint8 and GetEmpty: an absent
\* attribute is no error, a value of another length than expected is one
GetOptional(attrs, a) ==
    IF a \notin DOMAIN attrs THEN [present |-> FALSE, err |-> FALSE]
    ELSE IF attrs[a] # TunnelAttrSize(a) THEN [present |-> FALSE, err |-> TRUE]
    ELSE [present |-> TRUE, err |-> FALSE]

\* parseTunnelAttrs with the error of every getter looked at
parseTunnelAttrsLen_AllChecked(attrs) ==
    [ok |-> \A a \in TunnelKeyAttrs : ~GetOptional(attrs, a).err,
     present |-> {a \in TunnelKeyAttrs : GetOptional(attrs, a).present}]

\* parseTunnelAttrs, as to lengths: it returns the error of a getter right
\* after the call, but for OVS_TUNNEL_KEY_ATTR_IPV4_DST, whose error is
\* overwritten by the call for OVS_TUNNEL_KEY_ATTR_TOS that follows
parseTunnelAttrsLen(attrs) ==
    LET err(a) == GetOptional(attrs, a).err
        pres(S) == {a \in S : GetOptional(attrs, a).present}
    IN IF err("ID") THEN [ok |-> FALSE, present |-> {}]
       ELSE IF err("IPV4_SRC") THEN [ok |-> FALSE, present |-> pres({"ID"})]
       ELSE IF err("TOS")
       THEN [ok |-> FALSE, present |-> pres({"ID", "IPV4_SRC", "IPV4_DST"})]
       ELSE IF err("TTL")
       THEN [ok |-> FALSE, present |-> pres({"ID", "IPV4_SRC", "IPV4_DST", "TOS"})]
       ELSE IF err("DONT_FRAGMENT")
       THEN [ok |-> FALSE, present |-> pres(TunnelKeyAttrs \ {"DONT_FRAGMENT", "CSUM"})]
       ELSE IF err("CSUM")
       THEN [ok |-> FALSE, present |-> pres(TunnelKeyAttrs \ {"CSUM"})]
       ELSE [ok |-> TRUE, present |-> pres(TunnelKeyAttrs)]

\* DatapathHandle.parseFlowSpec (flow.go) on a message of the kernel
DecodeHandle ==
    /\ fpc = "idle"
    /\ \E w \in UnknownWires :
          LET r == parseFlowSpec(w)
          IN /\ fwire' = w
             /\ fsb' = r.val
             /\ feq' = r.ok
    /\ fpc' = "handle"
    /\ UNCHANGED <<fsa, mvars, nvars, tvars, avars, flvars, lvars, cvars>>

\* Datapath.parseFlowSpec (dpif.go) on a message of the kernel
DecodeDatapath ==
    /\ fpc = "idle"
    /\ \E w \in UnknownWires :
          LET r == DatapathParseFlowSpec(w)
          IN /\ fwire' = w
             /\ fsb' = r.val
             /\ feq' = r.ok
    /\ fpc' = "datapath"
    /\ UNCHANGED <<fsa, mvars, nvars, tvars, avars, flvars, lvars, cvars>>

\* parseTunnelFlowKey on a tunnel key without mask, parseSetAction on a
\* set-tunnel action: both return the error of parseTunnelAttrs
DecodeTunnel ==
    /\ fpc = "idle"
    /\ \E attrs \in TunnelAttrLens, in \in {"key", "set"} :
          LET r == parseTunnelAttrsLen(attrs)
          IN /\ fwire' = [in |-> in, attrs |-> attrs]
             /\ feq' = r.ok
             /\ fsb' = [present |-> r.present]
    /\ fpc' = "tunnel"
    /\ UNCHANGED <<fsa, mvars, nvars, tvars, avars, flvars, lvars, cvars>>

DecodeNext ==
    \/ DecodeHandle
    \/ DecodeDatapath
    \/ DecodeTunnel

----------------------------------------------------------------------------
(* Clients, datapaths and datapath handles: dpif.go, datapath.go *)

\* the Dpif values of the program; 0 stands for a nil *Dpif
Clients == 1..2

Names == {"dp1", "dp2"}

\* the variables of the caller that hold a DatapathHandle
Slots == 1..MaxHandles

EEXIST == 17

\* DatapathHandle{dpif, ifindex}
Handle(dpif, ifindex) == [dpif |-> dpif, ifindex |-> ifindex]

\* DatapathHandle{}
NoHandle == Handle(0, 0)

\* datapathInfo, as the kernel's OVS_DP_CMD_NEW message carries it
DpMsg(ifindex, name) == [ifindex |-> ifindex, name |-> name]

\* a parseDatapathInfo that does not take the interface index from the
\* message
parseDatapathInfo_NoIfindex(msg) == [ifindex |-> 0, name |-> msg.name]

\* Dpif.parseDatapathInfo
parseDatapathInfo(msg) == [ifindex |-> msg.ifindex, name |-> msg.name]

\* the outcome of a call: "ok", "err" (a non-nil error, errno of the kernel
\* or 0) or "panic" (nil pointer dereference). sent: the request went out
\* on the socket; ifindex: the interface index in its OVS header
ARes(op, name, slot, outcome, errno, sent, ifindex, handle, names, closed, stale) ==
    [op |-> op, name |-> name, slot |-> slot, outcome |-> outcome,
     errno |-> errno, sent |-> sent, ifindex |-> ifindex, handle |-> handle,
     names |-> names, closed |-> closed, stale |-> stale]

NoARes == ARes("none", "", 0, "none", 0, FALSE, 0, NoHandle, {}, FALSE, FALSE)

\* NetlinkSocket.send on a nil socket dereferences s.fd
SendPanics(c) == ~dsock[c]

AIdle ==
    /\ dsock = [c \in Clients |-> TRUE]
    /\ kdp = [n \in Names |-> 0]
    /\ nextIfindex = 1
    /\ hnd = [s \in Slots |-> NoHandle]
    /\ ares = NoARes
    /\ created = [n \in Names |-> NoHandle]
    /\ removed = {}
    /\ deletedVia = {}

\* Dpif.Close
DpifClose ==
    \E c \in Clients :
        /\ dsock' = [dsock EXCEPT ![c] = FALSE]
        /\ ares' = ARes("close", "", 0, "ok", 0, FALSE, 0, NoHandle, {}, ~dsock[c], FALSE)
        /\ UNCHANGED <<kdp, nextIfindex, hnd, created, removed, deletedVia,
                       mvars, nvars, tvars, fvars, flvars, lvars, cvars>>

\* Dpif.CreateDatapath, the handle goes to a variable of the caller
CreateDatapath ==
    \E c \in Clients, name \in Names, s \in Slots :
        IF SendPanics(c)
        THEN /\ ares' = ARes("create", name, s, "panic", 0, FALSE, 0, NoHandle, {}, TRUE, FALSE)
             /\ UNCHANGED <<dsock, kdp, nextIfindex, hnd, created, removed, deletedVia,
                            mvars, nvars, tvars, fvars, flvars, lvars, cvars>>
        ELSE IF kdp[name] # 0
        THEN /\ ares' = ARes("create", name, s, "err", EEXIST, TRUE, 0, NoHandle, {}, FALSE, FALSE)
             /\ UNCHANGED <<dsock, kdp, nextIfindex, hnd, created, removed, deletedVia,
                            mvars, nvars, tvars, fvars, flvars, lvars, cvars>>
        ELSE /\ nextIfindex <= MaxIfindex
             /\ LET dpi == parseDatapathInfo(DpMsg(nextIfindex, name))
                    h == Handle(c, dpi.ifindex)
                IN /\ hnd' = [hnd EXCEPT ![s] = h]
                   /\ ares' = ARes("create", name, s, "ok", 0, TRUE, 0, h, {}, FALSE, FALSE)
             /\ kdp' = [kdp EXCEPT ![name] = nextIfindex]
             /\ created' = [created EXCEPT ![name] = Handle(c, nextIfindex)]
             /\ removed' = removed \ {name}
             /\ nextIfindex' = nextIfindex + 1
             /\ deletedVia' = deletedVia \ {s}
             /\ UNCHANGED <<dsock, mvars, nvars, tvars, fvars, flvars, lvars, cvars>>

\* Dpif.LookupDatapath
LookupDatapath ==
    \E c \in Clients, name \in Names, s \in Slots :
        IF SendPanics(c)
        THEN /\ ares' = ARes("lookup", name, s, "panic", 0, FALSE, 0, NoHandle, {}, TRUE, FALSE)
             /\ UNCHANGED <<dsock, kdp, nextIfindex, hnd, created, removed, deletedVia,
                            mvars, nvars, tvars, fvars, flvars, lvars, cvars>>
        ELSE IF kdp[name] = 0
        THEN /\ ares' = ARes("lookup", name, s, "err", ENODEV, TRUE, 0, NoHandle, {}, FALSE, FALSE)
             /\ UNCHANGED <<dsock, kdp, nextIfindex, hnd, created, removed, deletedVia,
                            mvars, nvars, tvars, fvars, flvars, lvars, cvars>>
        ELSE /\ LET dpi == parseDatapathInfo(DpMsg(kdp[name], name))
                    h == Handle(c, dpi.ifindex)
                IN /\ hnd' = [hnd EXCEPT ![s] = h]
                   /\ ares' = ARes("lookup", name, s, "ok", 0, TRUE, 0, h, {}, FALSE, FALSE)
             /\ deletedVia' = deletedVia \ {s}
             /\ UNCHANGED <<dsock, kdp, nextIfindex, created, removed,
                            mvars, nvars, tvars, fvars, flvars, lvars, cvars>>

\* Dpif.EnumerateDatapaths: the names of the map it returns
EnumerateDatapaths ==
    \E c \in Clients :
        /\ IF SendPanics(c)
           THEN ares' = ARes("enumerate", "", 0, "panic", 0, FALSE, 0, NoHandle, {}, TRUE, FALSE)
           ELSE ares' = ARes("enumerate", "", 0, "ok", 0, TRUE, 0, NoHandle,
                             {parseDatapathInfo(DpMsg(kdp[n], n)).name :
                                 n \in {x \in Names : kdp[x] # 0}},
                             FALSE, FALSE)
        /\ UNCHANGED <<dsock, kdp, nextIfindex, hnd, created, removed, deletedVia,
                       mvars, nvars, tvars, fvars, flvars, lvars, cvars>>

\* DatapathHandle.Delete on the handle a variable of the caller holds. The
\* receiver is a copy: dp.dpif = nil and dp.ifindex = 0 do not reach the
\* caller's handle
HandleDelete ==
    \E s \in Slots :
        LET dp == hnd[s]
            stale == s \in deletedVia
        IN IF dp.dpif = 0
           THEN /\ ares' = ARes("delete", "", s, "panic", 0, FALSE, dp.ifindex, dp, {}, FALSE, stale)
                /\ UNCHANGED <<dsock, kdp, nextIfindex, hnd, created, removed, deletedVia,
                               mvars, nvars, tvars, fvars, flvars, lvars, cvars>>
           ELSE IF SendPanics(dp.dpif)
           THEN /\ ares' = ARes("delete", "", s, "panic", 0, FALSE, dp.ifindex, dp, {}, TRUE, stale)
                /\ UNCHANGED <<dsock, kdp, nextIfindex, hnd, created, removed, deletedVia,
                               mvars, nvars, tvars, fvars, flvars, lvars, cvars>>
           ELSE IF \E n \in Names : kdp[n] = dp.ifindex
           THEN /\ kdp' = [n \in Names |-> IF kdp[n] = dp.ifindex THEN 0 ELSE kdp[n]]
                /\ created' = [n \in Names |-> IF kdp[n] = dp.ifindex THEN NoHandle ELSE created[n]]
                /\ removed' = removed \cup {n \in Names : kdp[n] = dp.ifindex}
                /\ deletedVia' = deletedVia \cup {s}
                /\ ares' = ARes("delete", "", s, "ok", 0, TRUE, dp.ifindex, dp, {}, FALSE, stale)
                /\ UNCHANGED <<dsock, nextIfindex, hnd,
                               mvars, nvars, tvars, fvars, flvars, lvars, cvars>>
           ELSE /\ ares' = ARes("delete", "", s, "err", ENODEV, TRUE, dp.ifindex, dp, {}, FALSE, stale)
                /\ UNCHANGED <<dsock, kdp, nextIfindex, hnd, created, removed, deletedVia,
                               mvars, nvars, tvars, fvars, flvars, lvars, cvars>>

ApiNext ==
    \/ DpifClose
    \/ CreateDatapath
    \/ LookupDatapath
    \/ EnumerateDatapaths
    \/ HandleDelete

----------------------------------------------------------------------------
(* The flows of one datapath: CreateFlow, DeleteFlow, EnumerateFlows *)

ENOENT == 2

OutputOne == <<Action("OUTPUT", 1, ZeroTunnelAttrs, ZeroTunnelAttrs)>>

\* the flows the caller installs: an exact ethernet key, or a tunnel key
\* matching on the tunnel id alone, with one output action
FlowPool ==
    {FlowSpec([t \in {"ETHERNET"} |-> FlowKey("ETHERNET", <<k>>, <<ExactBlob>>)],
              OutputOne) : k \in {1, 2}}
    \cup {FlowSpec([t \in {"TUNNEL"} |-> FlowKey("TUNNEL", k, <<1, 0, 0>>)],
                   OutputOne) : k \in {ta \in TunnelAttrs : ta[Df] = 0}}

\* the kernel identifies a flow by its key and mask attributes
SameFlow(w, v) == w.keys = v.keys /\ w.masks = v.masks

\* the outcome of a flow call. outcome: "ok", "NoSuchFlowError" or
\* "NetlinkError" (with errno); kerrno: what the kernel answered; flows, n:
\* the specs EnumerateFlows returned and their number
FlRes(op, outcome, errno, kerrno, flows, n, again) ==
    [op |-> op, outcome |-> outcome, errno |-> errno, kerrno |-> kerrno,
     flows |-> flows, n |-> n, again |-> again]

NoFlRes == FlRes("none", "none", 0, 0, {}, 0, FALSE)

\* a DeleteFlow that returns the kernel's error as it is
deleteFlowError_NoMapping(errno) ==
    IF errno = 0 THEN "ok" ELSE "NetlinkError"

\* DeleteFlow: if err == NetlinkError(syscall.ENOENT) { err = NoSuchFlowError{} }
deleteFlowError(errno) ==
    IF errno = 0 THEN "ok"
    ELSE IF errno = ENOENT THEN "NoSuchFlowError"
    ELSE "NetlinkError"

FlIdle ==
    /\ kflows = {}
    /\ flres = NoFlRes
    /\ flmade = {}
    /\ flgone = {}

\* DatapathHandle.CreateFlow of a flow whose keys differ from those of the
\* flows created so far
CreateFlow ==
    /\ Cardinality(flmade) < MaxFlows
    /\ \E f \in FlowPool :
          /\ \A g \in flmade : ~FlowKeysEquals(f.keys, g.keys)
          /\ LET w == toNlAttrs(f)
             IN kflows' = {v \in kflows : ~SameFlow(v, w)} \cup {w}
          /\ flmade' = flmade \cup {f}
          /\ flgone' = {g \in flgone : ~SameFlow(toNlAttrs(g), toNlAttrs(f))}
    /\ flres' = FlRes("create", "ok", 0, 0, {}, 0, FALSE)
    /\ UNCHANGED <<mvars, nvars, tvars, fvars, avars, lvars, cvars>>

\* DatapathHandle.DeleteFlow of a created flow, of a flow deleted before, or
\* of a flow EnumerateFlows returned. The kernel answers ENOENT when no such
\* flow is installed, and ENODEV when the datapath is gone
DeleteFlow ==
    /\ \E f \in flmade \cup flgone \cup flres.flows, gone \in BOOLEAN :
          LET w == toNlAttrs(f)
              hit == {v \in kflows : SameFlow(v, w)}
              kerrno == IF gone THEN ENODEV ELSE IF hit = {} THEN ENOENT ELSE 0
          IN /\ kflows' = (IF kerrno = 0 THEN kflows \ hit ELSE kflows)
             /\ flmade' = (IF kerrno = 0
                           THEN {g \in flmade : ~SameFlow(toNlAttrs(g), w)}
                           ELSE flmade)
             /\ flgone' = (IF kerrno = 0 THEN flgone \cup {f} ELSE flgone)
             /\ flres' = FlRes("delete", deleteFlowError(kerrno),
                               IF kerrno \in {0, ENOENT} THEN 0 ELSE kerrno,
                               kerrno, {}, 0, f \in flgone)
    /\ UNCHANGED <<mvars, nvars, tvars, fvars, avars, lvars, cvars>>

\* DatapathHandle.EnumerateFlows: the kernel dumps the attributes of every
\* installed flow and the consumer parses each message
EnumerateFlows ==
    /\ IF \A w \in kflows : parseFlowSpec(w).ok
       THEN flres' = FlRes("enumerate", "ok", 0, 0,
                           {parseFlowSpec(w).val : w \in kflows},
                           Cardinality(kflows), FALSE)
       ELSE flres' = FlRes("enumerate", "NetlinkError", 0, 0, {}, 0, FALSE)
    /\ UNCHANGED <<kflows, flmade, flgone, mvars, nvars, tvars, fvars, avars, lvars, cvars>>

FlowTableNext ==
    \/ CreateFlow
    \/ DeleteFlow
    \/ EnumerateFlows

----------------------------------------------------------------------------
(* Resolving a generic netlink family: lookupFamily, loadOpenvswitchModule *)

\* an error value. kind: "nil", "NetlinkError" (a kernel errno), "transport"
\* (the send or receive call failed), "fmt.Errorf" (a descriptive error), or
\* "unsent" where no request was made
LErr(kind, errno) == [kind |-> kind, errno |-> errno]

NilErr == LErr("nil", 0)

Unsent == LErr("unsent", 0)

\* the calls of one lookupFamily: the errors of the first request and of the
\* retry, the calls of loadOpenvswitchModule, and the error returned
LRes(first, retry, loads, surfaced) ==
    [first |-> first, retry |-> retry, loads |-> loads, surfaced |-> surfaced]

NoLRes == LRes(Unsent, Unsent, 0, Unsent)

\* sock.LookupGenlFamily: the kernel answers ENOENT while the family is not
\* registered; the request can also fail in the transport
LookupGenlFamily(registered, fails) ==
    IF fails THEN LErr("transport", 0)
    ELSE IF registered THEN NilErr
    ELSE LErr("NetlinkError", ENOENT)

\* the threads of the process that call lookupFamily
Threads == 1..MaxThreads

LIdle ==
    /\ triedLoadOpenvswitchModule = FALSE
    /\ kfamily = FALSE
    /\ lpc = "idle"
    /\ lerr = NilErr
    /\ lres = NoLRes
    /\ lsent = 0
    /\ lprobes = 0
    /\ lcalls = 0
    /\ lthr = [t \in Threads |-> [pc |-> "out", wrote |-> FALSE]]

\* a call of lookupFamily begins
LookupFamily ==
    /\ lpc \in {"idle", "returned"}
    /\ lcalls < MaxLookups
    /\ lcalls' = lcalls + 1
    /\ lpc' = "first"
    /\ lerr' = NilErr
    /\ lres' = NoLRes
    /\ lsent' = 0
    /\ UNCHANGED <<triedLoadOpenvswitchModule, kfamily, lprobes>>
    /\ UNCHANGED <<mvars, nvars, tvars, fvars, avars, flvars, cvars, lthr>>

\* family, err := sock.LookupGenlFamily(name), and the two tests on err
LookupFirst ==
    /\ lpc = "first"
    /\ \E fails \in BOOLEAN :
          LET err == LookupGenlFamily(kfamily, fails)
          IN /\ lerr' = err
             /\ lsent' = lsent + 1
             /\ IF err = LErr("NetlinkError", ENOENT)
                THEN /\ lpc' = "load"
                     /\ lres' = [lres EXCEPT !.first = err]
                ELSE /\ lpc' = "returned"
                     /\ lres' = [lres EXCEPT !.first = err, !.surfaced = err]
    /\ UNCHANGED <<triedLoadOpenvswitchModule, kfamily, lprobes, lcalls>>
    /\ UNCHANGED <<mvars, nvars, tvars, fvars, avars, flvars, cvars, lthr>>

\* loadOpenvswitchModule: once per process, a netdev ioctl on a new socket
\* that may make the kernel load the module
LoadOpenvswitchModule ==
    /\ lpc = "load"
    /\ lpc' = "retry"
    /\ lres' = [lres EXCEPT !.loads = @ + 1]
    /\ IF triedLoadOpenvswitchModule
       THEN UNCHANGED <<triedLoadOpenvswitchModule, kfamily, lprobes>>
       ELSE \E sockOk \in BOOLEAN, loaded \in BOOLEAN :
               /\ triedLoadOpenvswitchModule' = TRUE
               /\ lprobes' = lprobes + (IF sockOk THEN 1 ELSE 0)
               /\ kfamily' = (kfamily \/ (sockOk /\ loaded))
    /\ UNCHANGED <<lerr, lsent, lcalls>>
    /\ UNCHANGED <<mvars, nvars, tvars, fvars, avars, flvars, cvars, lthr>>

\* the retry, and the error lookupFamily returns after it
LookupRetry ==
    /\ lpc = "retry"
    /\ \E fails \in BOOLEAN :
          LET err == LookupGenlFamily(kfamily, fails)
              ret == IF err = LErr("NetlinkError", ENOENT)
                     THEN LErr("fmt.Errorf", 0)
                     ELSE err
          IN /\ lerr' = ret
             /\ lres' = [lres EXCEPT !.retry = err, !.surfaced = ret]
    /\ lsent' = lsent + 1
    /\ lpc' = "returned"
    /\ UNCHANGED <<triedLoadOpenvswitchModule, kfamily, lprobes, lcalls>>
    /\ UNCHANGED <<mvars, nvars, tvars, fvars, avars, flvars, cvars, lthr>>

\* the administrator loads or unloads the openvswitch module
ExtModule ==
    /\ lpc \in {"first", "retry"}
    /\ kfamily' = ~kfamily
    /\ UNCHANGED <<triedLoadOpenvswitchModule, lpc, lerr, lres, lsent, lprobes, lcalls>>
    /\ UNCHANGED <<mvars, nvars, tvars, fvars, avars, flvars, cvars, lthr>>

FamilyNext ==
    \/ LookupFamily
    \/ LookupFirst
    \/ LoadOpenvswitchModule
    \/ LookupRetry
    \/ ExtModule

----------------------------------------------------------------------------
(* loadOpenvswitchModule called by several threads *)

lRest == <<mvars, nvars, tvars, fvars, avars, flvars, cvars, lpc, lerr, lres, lsent>>

\* the values the read of triedLoadOpenvswitchModule by thread t can give:
\* the variable is a plain bool that is read and written without any
\* synchronisation, so a thread is sure to see TRUE only where it wrote it
\* itself
TriedSeenBy(t) ==
    IF ~triedLoadOpenvswitchModule THEN {FALSE}
    ELSE IF lthr[t].wrote THEN {TRUE}
    ELSE {TRUE, FALSE}

\* lookupFamily of a thread got ENOENT and calls loadOpenvswitchModule
LoadEnter ==
    /\ lcalls < MaxLookups
    /\ \E t \in Threads :
          /\ lthr[t].pc = "out"
          /\ lthr' = [lthr EXCEPT ![t].pc = "test"]
    /\ lcalls' = lcalls + 1
    /\ UNCHANGED <<triedLoadOpenvswitchModule, kfamily, lprobes, lRest>>

\* if triedLoadOpenvswitchModule { return }
LoadTest ==
    /\ \E t \in Threads :
          /\ lthr[t].pc = "test"
          /\ \E seen \in TriedSeenBy(t) :
                lthr' = [lthr EXCEPT ![t].pc = IF seen THEN "out" ELSE "probe"]
    /\ UNCHANGED <<triedLoadOpenvswitchModule, kfamily, lprobes, lcalls, lRest>>

\* syscall.Socket and, where it succeeds, the SIOCGIFINDEX ioctl that may
\* make the kernel load the module
LoadProbe ==
    /\ \E t \in Threads :
          /\ lthr[t].pc = "probe"
          /\ lthr' = [lthr EXCEPT ![t].pc = "set"]
    /\ \E sockOk \in BOOLEAN, loaded \in BOOLEAN :
          /\ lprobes' = lprobes + (IF sockOk THEN 1 ELSE 0)
          /\ kfamily' = (kfamily \/ (sockOk /\ loaded))
    /\ UNCHANGED <<triedLoadOpenvswitchModule, lcalls, lRest>>

\* triedLoadOpenvswitchModule = true
LoadSet ==
    /\ \E t \in Threads :
          /\ lthr[t].pc = "set"
          /\ lthr' = [lthr EXCEPT ![t] = [pc |-> "out", wrote |-> TRUE]]
    /\ triedLoadOpenvswitchModule' = TRUE
    /\ UNCHANGED <<kfamily, lprobes, lcalls, lRest>>

LoadNext ==
    \/ LoadEnter
    \/ LoadTest
    \/ LoadProbe
    \/ LoadSet

----------------------------------------------------------------------------
(* The miss listener: consumeMisses *)

\* what a receive call of the listener yields: a failure of the call, or a
\* message that is well-formed or fails at one step of the handler
MsgKinds == {"miss", "badheaders", "badattrs", "nokey", "badkeys"}

\* a callback invoked on the consumer. cb: "Miss" or "Error"; stopped: the
\* flag passed to Error; input: history, what the receive call had yielded
Callback(cb, stopped, input) == [cb |-> cb, stopped |-> stopped, input |-> input]

\* a handler that drops a message whose flow keys do not parse
missHandler_Swallow(msg) ==
    IF msg \in {"badheaders", "badattrs", "nokey"} THEN "err"
    ELSE IF msg = "badkeys" THEN "dropped"
    ELSE "Miss"

\* the handler consumeMisses passes to sock.consume: "err" when
\* checkNlMsgHeaders, TakeAttrs, GetNestedAttrs or ParseFlowKeys fails, and
\* otherwise consumer.Miss is called
missHandler(msg) ==
    IF msg \in {"badheaders", "badattrs", "nokey", "badkeys"} THEN "err"
    ELSE "Miss"

CIdle ==
    /\ cpc = "running"
    /\ cfdOpen = TRUE
    /\ clog = <<>>
    /\ crecvs = 0

\* one turn of the receive loop of sock.consume: a failed receive is reported
\* with stopped = true and ends the loop (consumeMisses then closes the
\* socket); a message goes to the handler and its error is reported with
\* stopped = false
Consume ==
    /\ cpc = "running"
    /\ crecvs < MaxRecvs
    /\ crecvs' = crecvs + 1
    /\ \E in \in MsgKinds \cup {"recvfail"} :
          IF in = "recvfail"
          THEN /\ clog' = Append(clog, Callback("Error", TRUE, in))
               /\ cpc' = "stopped"
               /\ cfdOpen' = FALSE
          ELSE /\ clog' = (CASE missHandler(in) = "err" ->
                                    Append(clog, Callback("Error", FALSE, in))
                             [] missHandler(in) = "Miss" ->
                                    Append(clog, Callback("Miss", FALSE, in))
                             [] OTHER -> clog)
               /\ UNCHANGED <<cpc, cfdOpen>>
    /\ UNCHANGED <<mvars, nvars, tvars, fvars, avars, flvars, lvars>>

ListenerNext == Consume

----------------------------------------------------------------------------
(* Building netlink messages: NlMsgBuilder *)

NLMSG_HDRLEN == 16
NLMSG_ALIGNTO == 4
NLA_ALIGNTO == 4
SizeofNlAttr == 4
SizeofGenlMsghdr == 4
SizeofUint32 == 4

\* the offset behind h.Seq in the message header
SeqEnd == 12

\* align: n rounded up to a multiple of a
align(n, a) == ((n + a - 1) \div a) * a

\* a byte slice, by its length and the capacity of its array; nil is the
\* slice of length and capacity 0
Buf(len, cap) == [len |-> len, cap |-> cap]

NilBuf == Buf(0, 0)

RECURSIVE expandTo(_, _)
\* the loop of expand: c grows by half until l fits
expandTo(c, l) == IF l > c THEN expandTo(((c + 1) * 3) \div 2, l) ELSE c

\* expand: an array of capacity at least l
expand(buf, l) == Buf(buf.len, expandTo(((buf.cap + 1) * 3) \div 2, l))

\* buf resliced to length l, expanded when l does not fit
resliced(buf, l) == Buf(l, IF l > buf.cap THEN expand(buf, l).cap ELSE buf.cap)

\* NlMsgBuilder.Align
Align(buf, a) == resliced(buf, align(buf.len, a))

\* NlMsgBuilder.Grow
Grow(buf, size) == [pos |-> buf.len, buf |-> resliced(buf, buf.len + size)]

\* NlMsgBuilder.AlignGrow
AlignGrow(buf, a, size) ==
    [pos |-> align(buf.len, a), buf |-> resliced(buf, align(buf.len, a) + size)]

\* nla.Len = uint16(len(nlmsg.buf) - pos)
nlaLen(buf, pos) == (buf.len - pos) % 65536

\* PutAttr with a gen that writes n value bytes
PutAttr(buf, n) ==
    LET ag == AlignGrow(buf, NLA_ALIGNTO, SizeofNlAttr)
        g == Grow(ag.buf, n)
    IN [buf |-> g.buf, pos |-> ag.pos, len |-> nlaLen(g.buf, ag.pos)]

\* a PutNestedAttrs that does not align behind the inner attributes
nestedEnd_NoAlign(buf) == buf

\* PutNestedAttrs, behind gen: the padding that ends the nested value
nestedEnd(buf) == Align(buf, NLA_ALIGNTO)

\* a closed attribute: val is the number of value bytes its gen wrote (for
\* a nested attribute the bytes up to the end of its last inner attribute),
\* parent the position of the enclosing attribute, -1 at the top
Attr(pos, len, val, nested, parent) ==
    [pos |-> pos, len |-> len, val |-> val, nested |-> nested, parent |-> parent]

\* a builder call that returned; after: it was made after Finish
Call(op, after, out) == [op |-> op, after |-> after, out |-> out]

NoCall == Call("none", FALSE, "ok")

\* a message that Finish returned: its bytes, its h.Len and its h.Seq
Built(len, hlen, seq) == [len |-> len, hlen |-> hlen, seq |-> seq]

NoBuilt == Built(0, 0, 0)

\* a sequence number and the thread whose Finish stamped it; during: the
\* builder of thread 1 was between the two steps of its Finish
Stamp(thread, seq, during) == [thread |-> thread, seq |-> seq, during |-> during]

tRest == <<sockq, tpc, tseq, failAt, calls, tres, feed, nops, nstray>>

bRest == <<mvars, fvars, avars, flvars, lvars, cvars, pvars>>

BIdle ==
    /\ bpc = "idle"
    /\ bbuf = NilBuf
    /\ bopen = <<>>
    /\ battrs = <<>>
    /\ bcall = NoCall
    /\ bfin = FALSE
    /\ bres = NoBuilt
    /\ bout = <<>>

\* the position of the attribute whose gen is running
Parent == IF bopen = <<>> THEN -1 ELSE bopen[Len(bopen)]

NewNlMsgBuilder ==
    /\ bpc = "idle"
    /\ bbuf' = Buf(NLMSG_HDRLEN, NLMSG_HDRLEN)
    /\ bpc' = "building"
    /\ bcall' = Call("NewNlMsgBuilder", FALSE, "ok")
    /\ UNCHANGED <<bopen, battrs, bfin, bres, bout, nextSeqNo, tRest, bRest>>

\* PutGenlMsghdr, the first call on a new builder
PutGenlMsghdr ==
    /\ bpc = "building"
    /\ bcall.op = "NewNlMsgBuilder"
    /\ bbuf' = AlignGrow(bbuf, NLMSG_ALIGNTO, SizeofGenlMsghdr).buf
    /\ bcall' = Call("PutGenlMsghdr", bfin, "ok")
    /\ UNCHANGED <<bpc, bopen, battrs, bfin, bres, bout, nextSeqNo, tRest, bRest>>

\* PutUint32Attr; like every put, it does not look at whether Finish has
\* been called
PutUint32Attr ==
    /\ bpc \in {"building", "finished"}
    /\ Len(battrs) + Len(bopen) < MaxPuts
    /\ LET r == PutAttr(bbuf, SizeofUint32)
       IN /\ bbuf' = r.buf
          /\ battrs' = Append(battrs, Attr(r.pos, r.len, SizeofUint32, FALSE, Parent))
    /\ bcall' = Call("PutUint32Attr", bfin, "ok")
    /\ UNCHANGED <<bpc, bopen, bfin, bres, bout, nextSeqNo, tRest, bRest>>

\* PutStringAttr: the string and its terminating zero
PutStringAttr ==
    /\ bpc \in {"building", "finished"}
    /\ Len(battrs) + Len(bopen) < MaxPuts
    /\ \E l \in 0..(MaxData - 1) :
       LET r == PutAttr(bbuf, l + 1)
       IN /\ bbuf' = r.buf
          /\ battrs' = Append(battrs, Attr(r.pos, r.len, l + 1, FALSE, Parent))
    /\ bcall' = Call("PutStringAttr", bfin, "ok")
    /\ UNCHANGED <<bpc, bopen, bfin, bres, bout, nextSeqNo, tRest, bRest>>

PutSliceAttr ==
    /\ bpc \in {"building", "finished"}
    /\ Len(battrs) + Len(bopen) < MaxPuts
    /\ \E n \in 0..MaxData :
       LET r == PutAttr(bbuf, n)
       IN /\ bbuf' = r.buf
          /\ battrs' = Append(battrs, Attr(r.pos, r.len, n, FALSE, Parent))
    /\ bcall' = Call("PutSliceAttr", bfin, "ok")
    /\ UNCHANGED <<bpc, bopen, bfin, bres, bout, nextSeqNo, tRest, bRest>>

\* PutNestedAttrs up to the call of gen
PutNestedAttrsGen ==
    /\ bpc \in {"building", "finished"}
    /\ Len(battrs) + Len(bopen) < MaxPuts
    /\ Len(bopen) < MaxDepth
    /\ LET ag == AlignGrow(bbuf, NLA_ALIGNTO, SizeofNlAttr)
       IN /\ bbuf' = ag.buf
          /\ bopen' = Append(bopen, ag.pos)
    /\ bcall' = Call("gen", bfin, "ok")
    /\ UNCHANGED <<bpc, battrs, bfin, bres, bout, nextSeqNo, tRest, bRest>>

\* PutNestedAttrs from the return of gen on
PutNestedAttrs ==
    /\ bpc \in {"building", "finished"}
    /\ bopen # <<>>
    /\ LET pos == bopen[Len(bopen)]
           b == nestedEnd(bbuf)
       IN /\ bbuf' = b
          /\ battrs' = Append(battrs,
                Attr(pos, nlaLen(b, pos), bbuf.len - (pos + SizeofNlAttr), TRUE,
                     IF Len(bopen) = 1 THEN -1 ELSE bopen[Len(bopen) - 1]))
    /\ bopen' = SubSeq(bopen, 1, Len(bopen) - 1)
    /\ bcall' = Call("PutNestedAttrs", bfin, "ok")
    /\ UNCHANGED <<bpc, bfin, bres, bout, nextSeqNo, tRest, bRest>>

\* Finish up to h.Len = uint32(len(nlmsg.buf)); nlMsghdrAt panics on a nil
\* buffer
FinishLen ==
    /\ bpc \in {"building", "finished"}
    /\ bopen = <<>>
    /\ nextSeqNo < MaxSeq
    /\ IF bbuf = NilBuf
       THEN /\ bpc' = "panicked"
            /\ bcall' = Call("Finish", bfin, "panic")
       ELSE /\ bpc' = "stamping"
            /\ UNCHANGED bcall
    /\ UNCHANGED <<bbuf, bopen, battrs, bfin, bres, bout, nextSeqNo, tRest, bRest>>

\* Finish from the atomic increment on. h.Seq lies behind the array of a
\* buffer that was started after an earlier Finish: the write then either
\* goes unnoticed or brings the process down
FinishSeq ==
    /\ bpc = "stamping"
    /\ nextSeqNo' = Finish
    /\ \E out \in IF bbuf.cap < SeqEnd THEN {"msg", "fault"} ELSE {"msg"} :
          /\ bcall' = Call("Finish", bfin, out)
          /\ IF out = "msg"
             THEN /\ bres' = Built(bbuf.len, bbuf.len, Finish)
                  /\ bpc' = "finished"
             ELSE /\ bpc' = "panicked"
                  /\ UNCHANGED bres
    /\ bout' = Append(bout, Stamp(1, Finish, FALSE))
    /\ bbuf' = NilBuf
    /\ battrs' = <<>>
    /\ bfin' = TRUE
    /\ UNCHANGED <<bopen, tRest, bRest>>

\* Finish on the builder of another thread
PeerFinish ==
    /\ nextSeqNo < MaxSeq
    /\ nextSeqNo' = Finish
    /\ bout' = Append(bout, Stamp(2, Finish, bpc = "stamping"))
    /\ UNCHANGED <<bpc, bbuf, bopen, battrs, bcall, bfin, bres, tRest, bRest>>

BuilderNext ==
    \/ NewNlMsgBuilder
    \/ PutGenlMsghdr
    \/ PutUint32Attr
    \/ PutStringAttr
    \/ PutSliceAttr
    \/ PutNestedAttrsGen
    \/ PutNestedAttrs
    \/ FinishLen
    \/ FinishSeq
    \/ PeerFinish

----------------------------------------------------------------------------
(* Splitting a datagram into messages: NlMsgParser *)

SizeofNlMsghdr == 16

\* the declared lengths of the messages in a datagram: shorter than a
\* header, a bare header, and a header with up to MaxData bytes behind it
LenVals == {SizeofNlMsghdr \div 2} \cup {SizeofNlMsghdr + n : n \in 0..MaxData}

RECURSIVE Off(_, _)
\* the offset of the i-th message of a datagram whose messages declare the
\* lengths ds: each message starts at the aligned end of the one before
Off(ds, i) ==
    IF i = 1 THEN 0 ELSE align(Off(ds, i - 1) + ds[i - 1], NLMSG_ALIGNTO)

\* a datagram of size bytes with the messages ds; lens is kept for the
\* properties only
Datagram(ds, size) ==
    [size |-> size,
     hdr |-> [o \in {Off(ds, i) : i \in 1..Len(ds)} |->
                 ds[CHOOSE i \in 1..Len(ds) : Off(ds, i) = o]],
     lens |-> ds]

\* the end of the last message of ds
EndOf(ds) == IF ds = <<>> THEN 0 ELSE Off(ds, Len(ds)) + ds[Len(ds)]

\* what the socket hands over: the messages ds with or without padding
\* behind the last one, with the last byte missing, or with half a header
\* more
Datagrams ==
    UNION {{Datagram(ds, size) :
               size \in {EndOf(ds), align(EndOf(ds), NLMSG_ALIGNTO),
                         align(EndOf(ds), NLMSG_ALIGNTO) + (SizeofNlMsghdr \div 2)}
                        \cup (IF ds = <<>> THEN {} ELSE {EndOf(ds) - 1})} :
           ds \in UNION {[1..n -> LenVals] : n \in 0..MaxMsgs}}

\* h.Len of the header at pos; the bytes between messages are zero
hLenAt(data, pos) == IF pos \in DOMAIN data.hdr THEN data.hdr[pos] ELSE 0

\* the outcome of nextNlMsg: nil, an error, or the message data[start:end]
\* and the new msg.pos
Next(kind, start, end, pos) == [kind |-> kind, start |-> start, end |-> end, pos |-> pos]

\* a nextNlMsg that goes on right behind the message
nextNlMsgAt_NoSkip(data, pos) ==
    LET avail == data.size - pos
    IN IF avail <= 0 THEN Next("nil", 0, 0, pos)
       ELSE IF avail < SizeofNlMsghdr THEN Next("err", 0, 0, pos)
       ELSE IF avail < hLenAt(data, pos) THEN Next("err", 0, 0, pos)
       ELSE Next("msg", pos, pos + hLenAt(data, pos), pos + hLenAt(data, pos))

\* NlMsgParser.nextNlMsg, on the bytes of the datagram
nextNlMsgAt(data, pos) ==
    LET avail == data.size - pos
    IN IF avail <= 0 THEN Next("nil", 0, 0, pos)
       ELSE IF avail < SizeofNlMsghdr THEN Next("err", 0, 0, pos)
       ELSE IF avail < hLenAt(data, pos) THEN Next("err", 0, 0, pos)
       ELSE Next("msg", pos, pos + hLenAt(data, pos),
                 align(pos + hLenAt(data, pos), NLMSG_ALIGNTO))

PIdle ==
    /\ ppc = "idle"
    /\ pdata = Datagram(<<>>, 0)
    /\ ppos = 0
    /\ pmsgs = <<>>

pRest == <<mvars, tvars, fvars, avars, flvars, lvars, cvars, bvars>>

\* a datagram was received
PReceive ==
    /\ ppc = "idle"
    /\ \E d \in Datagrams : pdata' = d
    /\ ppc' = "parsing"
    /\ UNCHANGED <<ppos, pmsgs, pRest>>

\* one call of nextNlMsg
PNextNlMsg ==
    /\ ppc = "parsing"
    /\ LET r == nextNlMsgAt(pdata, ppos)
       IN /\ ppos' = r.pos
          /\ pmsgs' = (IF r.kind = "msg"
                       THEN Append(pmsgs, [start |-> r.start, end |-> r.end])
                       ELSE pmsgs)
          /\ ppc' = (CASE r.kind = "msg" -> "parsing"
                       [] r.kind = "nil" -> "end"
                       [] OTHER -> "failed")
    /\ UNCHANGED <<pdata, pRest>>

ParserNext ==
    \/ PReceive
    \/ PNextNlMsg

----------------------------------------------------------------------------
(* Walking a datagram whose length fields are arbitrary *)

\* the lengths a message header can declare, zero included
RawLenVals == {0} \cup LenVals

\* what the socket hands over when the peer is free to write any length
RawDatagrams ==
    UNION {{Datagram(ds, size) :
               size \in {EndOf(ds), align(EndOf(ds), NLMSG_ALIGNTO) + SizeofNlMsghdr}
                        \cup (IF ds = <<>> THEN {} ELSE {EndOf(ds) - 1})} :
           ds \in UNION {[1..n -> RawLenVals] : n \in 0..MaxMsgs}}

\* the lengths an attribute header can declare: zero, half a header, a
\* header with up to MaxData bytes of value
NlaLenVals == {0, SizeofNlAttr \div 2} \cup {SizeofNlAttr + n : n \in 0..MaxData}

\* the attribute bytes of a message; nla.Len is read as h.Len is
AttrBytes ==
    UNION {{Datagram(ds, size) :
               size \in {EndOf(ds), align(EndOf(ds), NLA_ALIGNTO) + (SizeofNlAttr \div 2)}
                        \cup (IF ds = <<>> THEN {} ELSE {EndOf(ds) - 1})} :
           ds \in UNION {[1..n -> NlaLenVals] : n \in 0..MaxMsgs}}

\* the outcomes of checkHeader on the message data[start:end] that
\* nextNlMsg returned: nlMsghdrAt takes the address of data[start], which
\* panics when the slice ends there; nlMsgerrAt, for a header of type
\* NLMSG_ERROR, takes the address of data[start + NLMSG_HDRLEN]. The fields
\* of the header are not part of the datagrams here, so any outcome that the
\* length allows is possible: go on, NLMSG_DONE, an error
checkHeaderAt(start, end) ==
    IF start >= end THEN {"panic"}
    ELSE {"next", "end", "failed"}
         \cup (IF start + NLMSG_HDRLEN >= end THEN {"panic"} ELSE {})

\* one iteration of the loop of TakeAttrs
takeAttrAt(data, pos) ==
    LET apos == align(pos, NLA_ALIGNTO)
        len == hLenAt(data, apos)
        valpos == align(apos + SizeofNlAttr, NLA_ALIGNTO)
    IN IF data.size <= apos THEN Next("nil", 0, 0, pos)
       ELSE IF apos + SizeofNlAttr > data.size THEN Next("err", 0, 0, apos)
       ELSE IF apos + len > data.size THEN Next("err", 0, 0, apos)
       ELSE IF valpos > apos + len THEN Next("panic", 0, 0, apos)
       ELSE Next("attr", valpos, apos + len, apos + len)

\* RequestMulti received a datagram
WalkReceive ==
    /\ ppc = "idle"
    /\ \E d \in RawDatagrams : pdata' = d
    /\ ppc' = "next"
    /\ UNCHANGED <<ppos, pmsgs, pRest>>

\* RequestMulti calls nextNlMsg
WalkNextNlMsg ==
    /\ ppc = "next"
    /\ LET r == nextNlMsgAt(pdata, ppos)
       IN /\ ppos' = r.pos
          /\ pmsgs' = (IF r.kind = "msg"
                       THEN Append(pmsgs, [start |-> r.start, end |-> r.end])
                       ELSE pmsgs)
          /\ ppc' = (CASE r.kind = "msg" -> "check"
                       [] r.kind = "nil" -> "end"
                       [] OTHER -> "failed")
    /\ UNCHANGED <<pdata, pRest>>

\* RequestMulti calls checkHeader on the message nextNlMsg returned, and
\* hands the message to its consumer
WalkCheckHeader ==
    /\ ppc = "check"
    /\ \E out \in checkHeaderAt(pmsgs[Len(pmsgs)].start, pmsgs[Len(pmsgs)].end) :
          ppc' = out
    /\ UNCHANGED <<pdata, ppos, pmsgs, pRest>>

\* a consumer calls TakeAttrs on the attribute bytes of its message
WalkAttrs ==
    /\ ppc = "idle"
    /\ \E d \in AttrBytes : pdata' = d
    /\ ppc' = "attrs"
    /\ UNCHANGED <<ppos, pmsgs, pRest>>

\* one iteration of the loop of TakeAttrs
WalkTakeAttr ==
    /\ ppc = "attrs"
    /\ LET r == takeAttrAt(pdata, ppos)
       IN /\ ppos' = r.pos
          /\ pmsgs' = (IF r.kind = "attr"
                       THEN Append(pmsgs, [start |-> r.start, end |-> r.end])
                       ELSE pmsgs)
          /\ ppc' = (CASE r.kind = "attr" -> "attrs"
                       [] r.kind = "nil" -> "end"
                       [] r.kind = "panic" -> "panic"
                       [] OTHER -> "failed")
    /\ UNCHANGED <<pdata, pRest>>

WalkNext ==
    \/ WalkReceive
    \/ WalkNextNlMsg
    \/ WalkCheckHeader
    \/ WalkAttrs
    \/ WalkTakeAttr

----------------------------------------------------------------------------
(* Specifications *)

\* no flow spec built, no datapath call, flow call or family lookup made, and
\* the miss listener not yet in a receive call
XIdle == FIdle /\ AIdle /\ FlIdle /\ LIdle /\ CIdle /\ BIdle /\ PIdle

\* no vport exists, the pipeline is not activated, no call has been made
IdleInit == MInit /\ preExisting = {} /\ TIdle /\ XIdle

\* calls on one socket, one after the other; the pipeline is not activated
TransportInit == MInit /\ preExisting = {} /\ TIdle /\ XIdle

SpecTransport == TransportInit /\ [][TransportNext]_vars

\* ConsumeMisses is called on a datapath with any of the vports
MissInit == MInit /\ TIdle /\ XIdle

\* the pipeline with no vport added or deleted from outside
SpecClosed == MissInit /\ [][PipelineNext]_vars

\* the pipeline next to other programs that add and delete vports
SpecMiss == MissInit /\ [][MissNext]_vars

\* flow specs are built, encoded, decoded and compared
SpecFlow == IdleInit /\ [][FlowNext]_vars

\* flow messages with unknown attribute types and tunnel attributes of any
\* length are decoded
SpecDecode == IdleInit /\ [][DecodeNext]_vars

\* two clients create, look up, enumerate and delete datapaths
SpecApi == IdleInit /\ [][ApiNext]_vars

\* flows are created, deleted and enumerated on a fresh datapath
SpecFlowTable == IdleInit /\ [][FlowTableNext]_vars

\* families are looked up on a machine without the openvswitch module
SpecFamily == IdleInit /\ [][FamilyNext]_vars

\* several threads look up families on a machine without the module
SpecLoad == IdleInit /\ [][LoadNext]_vars

\* one builder, and the Finish calls of another thread
SpecBuilder == IdleInit /\ [][BuilderNext]_vars

\* one datagram, split into its messages
SpecParser == IdleInit /\ [][ParserNext]_vars

\* walking a datagram and the attributes of a message as RequestMulti and
\* TakeAttrs do, for any declared lengths
SpecWalk == IdleInit /\ [][WalkNext]_vars

\* the miss listener of one datapath
SpecListener == IdleInit /\ [][ListenerNext]_vars

----------------------------------------------------------------------------
(* The miss pipeline: claims *)

\* both goroutines have stopped or wait, and no event is queued
Quiescent ==
    /\ evq = <<>>
    /\ evpc = "idle"
    /\ fgpc \in {"returned", "failed"}

\* C1: on a datapath with 2 pre-existing vports, a set-upcall request is
\* issued exactly once for each of them: never twice, and once by the time
\* ConsumeMisses has returned
C1_SetUpcallExactlyOnceEach ==
    Cardinality(preExisting) = 2 =>
        \A v \in preExisting :
            /\ issued[<<ListenDp, v>>] <= 1
            /\ (fgpc = "returned" => issued[<<ListenDp, v>>] = 1)

\* C2: the enumeration pass and the add-event handler are never both past
\* the look-up of the same vport with a set-upcall issued by each
C2_CheckIssueInsertOneStep ==
    ~(/\ fgpc = "insert"
      /\ evpc = "insert"
      /\ evcur.dp = ListenDp
      /\ evcur.id = fgv)

\* C3: once a delete event for a vport is handled, its id is in the
\* configured set only through a set-upcall issued after that event
C3_ReentersOnlyByLaterSetUpcall == vportsDone \cap staleIn = {}

C5_NoSelfRetrigger == ~retrig

\* C6: once ConsumeMisses has returned without error and everything queued
\* has been handled, every existing vport whose add event was delivered, and
\* whose set-upcall did not fail, has the listener's port id as its upcall
\* port id
C6_AddEventConfiguresVport ==
    (Quiescent /\ fgpc = "returned") =>
        \A k \in Keys :
            (kexists[k] /\ delivered[k] /\ ~setFailed[k]) => kupcall[k] = upcallPortId

C38_FailedActivationLeavesNothing ==
    fgpc = "failed" => (~missRunning /\ ~subscribed)

\* C39: the bookkeeping of configured vports keeps the datapaths apart: the
\* handler of an add or delete event of another datapath leaves the entries
\* of the vports of the listened datapath as they are.
C39_OtherDatapathLeavesBookkeeping ==
    [][/\ (evpc = "insert" /\ evpc' = "idle" /\ evcur.dp = OtherDp)
           => vportsDone' = vportsDone
       /\ (evpc = "idle" /\ evq # <<>> /\ evq' = Tail(evq) /\ Head(evq).dp = OtherDp)
           => vportsDone' = vportsDone]_vars

----------------------------------------------------------------------------
(* The transport: claims *)

RECURSIVE Flat(_)
Flat(ds) == IF ds = <<>> THEN <<>> ELSE Head(ds) \o Flat(Tail(ds))

\* m is a whole message for this socket
ForSocket(m) == ~m.trunc /\ m.pid = SockPid

\* a call of kind op has returned
Returned(op) == tpc = "idle" /\ tres.op = op

\* the transport delivered one message with another sequence number and
\* then one message with the request's, each in a datagram of its own
StrayThenMatch ==
    /\ Len(feed) = 2
    /\ Len(feed[1]) = 1
    /\ Len(feed[2]) = 1
    /\ ForSocket(feed[1][1])
    /\ feed[1][1].seq # tres.seq
    /\ ForSocket(feed[2][1])
    /\ feed[2][1].seq = tres.seq
    /\ ~(feed[2][1].typ = "ERROR" /\ feed[2][1].errno # 0)

\* C7: Request ignores a first message with a mismatched sequence number
\* and returns the second, which has the request's sequence number
C7_IgnoresStrayReturnsMatch ==
    (Returned("request") /\ StrayThenMatch) =>
        (tres.status = "ok" /\ tres.msg = feed[2][1])

C7_Witness ==
    /\ Returned("request")
    /\ StrayThenMatch
    /\ tres.status = "ok"

\* C8: the message Request returns has the sequence number stamped on the
\* request and the socket's port id, and is the kernel's answer to it
C8_NoMisattribution ==
    (Returned("request") /\ tres.status = "ok") =>
        /\ tres.msg.seq = tres.seq
        /\ tres.msg.pid = SockPid
        /\ <<tres.msg>> \in RequestReplies(tres.seq)

\* Request returned its response after passing over what an aborted dump
\* left in the receive queue
C8_Witness ==
    /\ Returned("request")
    /\ tres.status = "ok"
    /\ Len(feed) > 1
    /\ \E i \in 1..(Len(feed) - 1) : feed[i][1].typ = "DATA" /\ ForSocket(feed[i][1])

\* the transport delivered K data messages with the request's sequence
\* number and then NLMSG_DONE, in any number of datagrams
DumpFeed ==
    LET L == Flat(feed) IN
    /\ L # <<>>
    /\ \A i \in 1..Len(L) :
          /\ ForSocket(L[i])
          /\ L[i].seq = tres.seq
          /\ L[i].typ = (IF i < Len(L) THEN "DATA" ELSE "DONE")

\* C9: RequestMulti invokes the consumer once per data message, in arrival
\* order, and returns success at NLMSG_DONE
C9_ConsumerRunsOncePerMessage ==
    (Returned("multi") /\ failAt = 0 /\ DumpFeed) =>
        /\ tres.status = "ok"
        /\ calls = SubSeq(Flat(feed), 1, Len(Flat(feed)) - 1)

\* a dump of two messages that came in more than one datagram was consumed
C9_Witness ==
    /\ Returned("multi")
    /\ failAt = 0
    /\ DumpFeed
    /\ Len(feed) > 1
    /\ Len(calls) = 2
    /\ tres.status = "ok"

\* C10: the consumer is not invoked after the invocation on which it
\* returned an error, and RequestMulti returns that error
C10_ConsumerErrorAborts ==
    failAt > 0 =>
        /\ Len(calls) <= failAt
        /\ Len(calls) = failAt =>
              /\ Returned("multi")
              /\ tres.status = "err"
              /\ tres.err = Err("consumer", 0)

\* the consumer failed on the first of two messages and the rest of the
\* dump is still in the receive queue
C10_Witness ==
    /\ Returned("multi")
    /\ failAt = 1
    /\ Len(calls) = 1
    /\ tres.err = Err("consumer", 0)
    /\ sockq # <<>>

\* m ends a dump with sequence number seq by an error: it is cut short,
\* it is for another port id, or it is the kernel's error for the dump
HardError(m, seq) ==
    \/ m.trunc
    \/ m.pid # SockPid
    \/ m.seq = seq /\ m.typ = "ERROR" /\ m.errno # 0

\* the error RequestMulti returns for the message m
HardErrorOf(m) ==
    IF m.trunc THEN Err("truncated", 0)
    ELSE IF m.pid # SockPid THEN Err("pidmismatch", 0)
    ELSE Err("netlink", m.errno)

\* the messages of L before the i-th that carry the sequence number seq
RECURSIVE Accepted(_, _, _)
Accepted(L, i, seq) ==
    IF i <= 1 THEN <<>>
    ELSE IF L[i - 1].seq = seq THEN Append(Accepted(L, i - 1, seq), L[i - 1])
    ELSE Accepted(L, i - 1, seq)

\* C31: in a dump a message with another sequence number is passed over:
\* the consumer is not invoked for it and the dump goes on. The first
\* message that is for another port id, is an error message of the kernel
\* with a nonzero code or is cut short ends the dump, and its error is
\* returned.
C31_DumpSkipsStrayAbortsOnHardError ==
    (Returned("multi") /\ failAt = 0 /\ tres.err # Err("send", 0)) =>
        LET L == Flat(feed)
            stops == {i \in 1..Len(L) :
                         \/ HardError(L[i], tres.seq)
                         \/ L[i].seq = tres.seq /\ L[i].typ = "DONE"}
            j == CHOOSE i \in stops : \A k \in stops : i <= k
        IN /\ stops # {}
           /\ calls = Accepted(L, j, tres.seq)
           /\ IF HardError(L[j], tres.seq)
              THEN tres.status = "err" /\ tres.err = HardErrorOf(L[j])
              ELSE tres.status = "ok"

\* a dump that passed over what an aborted dump had left and was then ended
\* by a message for another port id
C31_Witness ==
    /\ Returned("multi")
    /\ failAt = 0
    /\ tres.err = Err("pidmismatch", 0)
    /\ \E i \in 1..Len(Flat(feed)) :
          /\ ForSocket(Flat(feed)[i])
          /\ Flat(feed)[i].seq # tres.seq
          /\ \E k \in (i + 1)..Len(Flat(feed)) : Flat(feed)[k].pid # SockPid

\* the last datagram of the feed holds a message with another sequence
\* number and, behind it, the response to the request
CoalescedFeed ==
    /\ feed # <<>>
    /\ Len(feed[Len(feed)]) = 2
    /\ ForSocket(feed[Len(feed)][1])
    /\ feed[Len(feed)][1].seq # tseq
    /\ ForSocket(feed[Len(feed)][2])
    /\ feed[Len(feed)][2].seq = tseq

\* C36: Request returns the response also when it is not the first message
\* of its datagram: once the datagram that holds a stray message and then
\* the response has been received, Request has returned that response.
C36_ReturnsResponseBehindStray ==
    ((tpc = "request" \/ Returned("request")) /\ CoalescedFeed /\ sockq = <<>>) =>
        /\ Returned("request")
        /\ tres.status = "ok"
        /\ tres.msg = feed[Len(feed)][2]

\* the feed is what an aborted dump left unread, followed by one datagram
\* with the one message that answers the request
LeftoverThenResponse ==
    /\ Len(feed) > 1
    /\ \A i \in 1..(Len(feed) - 1) :
          \A k \in 1..Len(feed[i]) :
             /\ ForSocket(feed[i][k])
             /\ feed[i][k].seq < tres.seq
             /\ feed[i][k].typ \in {"DATA", "DONE"}
    /\ Len(feed[Len(feed)]) = 1
    /\ ForSocket(feed[Len(feed)][1])
    /\ feed[Len(feed)][1].seq = tres.seq

\* C37: the request that follows a dump aborted by its consumer passes over
\* the messages the dump left on the socket and returns its own response.
C37_NextRequestDiscardsLeftover ==
    (Returned("request") /\ LeftoverThenResponse) =>
        IF feed[Len(feed)][1].typ = "ERROR" /\ feed[Len(feed)][1].errno # 0
        THEN tres.status = "err" /\ tres.err = Err("netlink", feed[Len(feed)][1].errno)
        ELSE tres.status = "ok" /\ tres.msg = feed[Len(feed)][1]

\* a request returned its response behind two leftover datagrams
C37_Witness ==
    /\ Returned("request")
    /\ LeftoverThenResponse
    /\ Len(feed) > 2
    /\ tres.status = "ok"
    /\ tres.msg.seq = tres.seq

----------------------------------------------------------------------------
(* Clients and datapath handles: claims *)

\* C11: an operation on a datapath handle whose owning client has been
\* closed returns an error; it does not crash and sends nothing on the
\* closed socket.
C11_ClosedOwnerFailsCleanly ==
    (ares.op = "delete" /\ ares.closed) =>
        (ares.outcome = "err" /\ ~ares.sent)

\* C12: after Delete succeeded on a datapath handle, a later operation
\* through the caller's handle is rejected and does not put the deleted
\* interface index in a request.
C12_DeleteInvalidatesHandle ==
    (ares.op = "delete" /\ ares.stale) =>
        (ares.outcome = "err" /\ ~(ares.sent /\ ares.ifindex # 0))

\* C15: when the kernel answers ENODEV, LookupDatapath returns a not-found
\* result without an error.
C15_LookupNotFoundIsNoError ==
    (ares.op = "lookup" /\ ares.sent /\ kdp[ares.name] = 0) =>
        (ares.outcome = "notfound" /\ ares.errno = 0)

\* C16: a look-up, by any client, of a created datapath returns a handle
\* with the interface index of the creation, and an enumeration holds the
\* names of exactly the created datapaths; after the deletion the name is
\* not enumerated and its look-up reports ENODEV, no such datapath.
C16_CreatedVisibleDeletedGone ==
    /\ (ares.op = "lookup" /\ ares.outcome # "panic") =>
          IF created[ares.name] # NoHandle
          THEN /\ ares.outcome = "ok"
               /\ ares.handle.ifindex = created[ares.name].ifindex
               /\ hnd[ares.slot] = ares.handle
          ELSE /\ ares.outcome = "err"
               /\ ares.errno = ENODEV
    /\ (ares.op = "enumerate" /\ ares.outcome # "panic") =>
          /\ ares.outcome = "ok"
          /\ ares.names = {n \in Names : created[n] # NoHandle}
          /\ ares.names \cap removed = {}

\* client 2 looks up what client 1 created, and a deleted name is looked up
C16_Witness ==
    /\ ares.op = "lookup"
    /\ \/ /\ ares.outcome = "ok"
          /\ created[ares.name].dpif # ares.handle.dpif
          /\ removed # {}
       \/ /\ ares.outcome = "err"
          /\ ares.name \in removed
          /\ \E n \in Names : created[n] # NoHandle

----------------------------------------------------------------------------
(* Flow specs: claims *)

\* C19: for every flow spec built from the supported key types, with any
\* masks and tunnel sub-fields, and from the supported actions, the spec
\* decoded from its encoding Equals the original.
C19_DecodeEncodeEquals ==
    fpc = "parsed" => feq

\* C20, as stated: two flow-key maps are Equal when every key type that one
\* of them lacks has an all-zero mask in the other, for every key type.
C20_AbsentEqualsZeroMask ==
    LET zero(k) == IF k.typ = "TUNNEL" THEN k.mask = ZeroTunnelAttrs
                   ELSE AllBytes(k.mask[1], "00")
        only(a, b) == \A t \in (DOMAIN a) \ (DOMAIN b) : zero(a[t])
    IN (fpc = "compared" /\ only(fsa.keys, fsb.keys) /\ only(fsb.keys, fsa.keys))
          => feq

\* C20: two flow-key maps are Equal when every key type that one of them
\* lacks is not the ethernet key and has an all-zero mask in the other; a
\* map that holds an ethernet key never Equals a map that lacks it.
C20_AbsentEqualsIgnored ==
    LET zero(k) == IF k.typ = "TUNNEL" THEN k.mask = ZeroTunnelAttrs
                   ELSE AllBytes(k.mask[1], "00")
        lone == ((DOMAIN fsa.keys) \ (DOMAIN fsb.keys))
                \cup ((DOMAIN fsb.keys) \ (DOMAIN fsa.keys))
        keyOf(t) == IF t \in DOMAIN fsa.keys THEN fsa.keys[t] ELSE fsb.keys[t]
    IN fpc = "compared" =>
          /\ (\A t \in lone : t # "ETHERNET" /\ zero(keyOf(t))) => feq
          /\ "ETHERNET" \in lone => ~feq

\* a map with a zero-mask key of a type the other map lacks, found Equal
C20_Witness ==
    /\ fpc = "compared"
    /\ feq
    /\ DOMAIN fsa.keys # DOMAIN fsb.keys

\* the key that FKeyIgnored looked at, or the two keys of FKeyEquals
TheKey(f) == f.keys[CHOOSE t \in DOMAIN f.keys : TRUE]

\* C21, as stated: a key of any blob type (priority, in-port, ethernet,
\* ethertype, skb-mark) whose mask is all zero reports Ignored.
C21_ZeroMaskBlobIgnored ==
    (fpc = "ignored" /\ TheKey(fsa).typ # "TUNNEL"
        /\ AllBytes(TheKey(fsa).mask[1], "00")) => feq

\* C21: a key of a blob type other than ethernet whose mask is all zero
\* reports Ignored; an ethernet key never reports Ignored, whatever its mask.
C21_ZeroMaskBlobIgnoredButEthernet ==
    fpc = "ignored" =>
        /\ (TheKey(fsa).typ \notin {"TUNNEL", "ETHERNET"}
               /\ AllBytes(TheKey(fsa).mask[1], "00")) => feq
        /\ TheKey(fsa).typ = "ETHERNET" => ~feq

\* a decoded in-port key with a zero mask, found Ignored
C21_Witness ==
    /\ fpc = "ignored"
    /\ TheKey(fsa).typ = "IN_PORT"
    /\ AllBytes(TheKey(fsa).mask[1], "00")
    /\ feq

\* the key bits or tunnel fields of a and b that their mask selects agree
MaskedSame(a, b) ==
    IF a.typ = "TUNNEL"
    THEN \A i \in TunnelFieldIds : a.mask[i] = 1 => a.key[i] = b.key[i]
    ELSE BitAnd(BitXor(a.key[1], b.key[1]), a.mask[1]) = 0

\* C22: two keys of one type, blob or tunnel, with equal masks are Equal
\* exactly when they agree on what the mask selects: key bits and tunnel
\* fields outside the mask never affect equality, and a full mask asks for
\* identical keys.
C22_EqualIffMaskedSame ==
    (fpc = "keys" /\ TheKey(fsa).mask = TheKey(fsb).mask)
        => (feq <=> MaskedSame(TheKey(fsa), TheKey(fsb)))

\* the mask attribute m of type t selects nothing
WireZero(t, m) ==
    IF t = "TUNNEL" THEN parseTunnelAttrs(m) = ZeroTunnelAttrs
    ELSE AllBytes(m[1], "00")

\* C23: on decode, a key type that is only in the mask set is accepted only
\* when its mask is all zero, and then yields an ignored key; a non-zero
\* mask without a key is rejected, for every key type.
C23_MaskOnlyZeroOrRejected ==
    (fpc = "decoded" /\ fwire.keys = EmptyAttrs /\ "masks" \in DOMAIN fwire) =>
        \A t \in DOMAIN fwire.masks :
            IF WireZero(t, fwire.masks[t])
            THEN feq /\ Ignored(fsb.keys[t])
            ELSE ~feq

\* C24: on decode, a key whose type is in the key set gets an exact-match
\* mask when the message has no mask set at all, and an all-zero mask when
\* the message has a mask set that lacks the type.
C24_MissingMaskExactOrZero ==
    fpc = "decoded" =>
        \A t \in DOMAIN fwire.keys :
            /\ "masks" \notin DOMAIN fwire =>
                  /\ feq
                  /\ fsb.keys[t].mask = (IF t = "TUNNEL" THEN ExactTunnelAttrsMask
                                                         ELSE <<ExactBlob>>)
            /\ ("masks" \in DOMAIN fwire /\ t \notin DOMAIN fwire.masks) =>
                  /\ feq
                  /\ fsb.keys[t].mask = (IF t = "TUNNEL" THEN ZeroTunnelAttrs
                                                         ELSE <<ZeroBlob>>)

\* a tunnel key decoded from a message whose mask set lacks it
C24_Witness ==
    /\ fpc = "decoded"
    /\ "TUNNEL" \in DOMAIN fwire.keys
    /\ "masks" \in DOMAIN fwire
    /\ fwire.masks = EmptyAttrs
    /\ fsb.keys["TUNNEL"].mask = ZeroTunnelAttrs

\* C30: decoding returns the actions in the order and with the repetitions
\* of the message, encoding emits them in list order, and so the action
\* list of a flow spec comes back unchanged from encoding and decoding.
C30_ActionsSurviveRoundTrip ==
    fpc = "parsed" =>
        /\ Len(fwire.actions) = Len(fsa.actions)
        /\ Len(fsb.actions) = Len(fwire.actions)
        /\ \A i \in 1..Len(fsa.actions) :
              /\ fwire.actions[i] = toNlAttr(fsa.actions[i])
              /\ fsb.actions[i] = parseAction(fwire.actions[i])
              /\ ActionEquals(fsa.actions[i], fsb.actions[i])

----------------------------------------------------------------------------
(* The flows of a datapath: claims *)

\* C17: DeleteFlow returns NoSuchFlowError exactly when the kernel answers
\* ENOENT, as it does for a flow that is not installed and so for a second
\* deletion of a flow; any other failure comes back as a different error,
\* the kernel's.
C17_NoSuchFlowIffENOENT ==
    flres.op = "delete" =>
        /\ (flres.kerrno = ENOENT) <=> (flres.outcome = "NoSuchFlowError")
        /\ (flres.kerrno \notin {0, ENOENT}) =>
              (flres.outcome = "NetlinkError" /\ flres.errno = flres.kerrno)
        /\ flres.again => flres.outcome # "ok"

\* a flow is deleted a second time and NoSuchFlowError comes back
C17_Witness ==
    /\ flres.op = "delete"
    /\ flres.again
    /\ flres.outcome = "NoSuchFlowError"

\* C18: after flows with pairwise different keys were created on a fresh
\* datapath, EnumerateFlows returns as many flows as were created and not
\* deleted, each of which Equals one of them; once all are deleted it
\* returns none.
C18_EnumerateReturnsCreated ==
    flres.op = "enumerate" =>
        /\ flres.outcome = "ok"
        /\ flres.n = Cardinality(flmade)
        /\ \A g \in flres.flows : \E f \in flmade : FlowSpecEquals(g, f)

----------------------------------------------------------------------------
(* Family lookup: claims *)

\* C13: a lookupFamily call sends at most two GETFAMILY requests, the second
\* only after the first failed with ENOENT and loadOpenvswitchModule was
\* called; a failed retry's error is the error returned; a first failure
\* other than ENOENT is returned with no call of loadOpenvswitchModule and
\* no retry.
C13_RetryOnceSurfaceRetryError ==
    lpc = "returned" =>
        /\ lsent <= 2
        /\ lsent = 2 =>
              (lres.first = LErr("NetlinkError", ENOENT) /\ lres.loads = 1)
        /\ lres.retry \notin {Unsent, NilErr} => lres.surfaced = lres.retry
        /\ lres.first \notin {NilErr, LErr("NetlinkError", ENOENT)} =>
              (lres.surfaced = lres.first /\ lsent = 1 /\ lres.loads = 0)

----------------------------------------------------------------------------
(* The miss listener: claims *)

----------------------------------------------------------------------------
(* Netlink messages: claims *)

\* the calls that put something in the buffer
PutOps ==
    {"PutGenlMsghdr", "PutUint32Attr", "PutStringAttr", "PutSliceAttr",
     "PutNestedAttrs"}

\* C25: after every put call the length of the builder's buffer is a
\* multiple of 4, and so is the length of the message that Finish returns.
C25_BufferAlignedAfterPut ==
    /\ (bcall.op \in PutOps /\ ~bcall.after) => bbuf.len % NLA_ALIGNTO = 0
    /\ (bcall.op = "Finish" /\ ~bcall.after /\ bcall.out = "msg")
          => bres.len % NLMSG_ALIGNTO = 0

\* C26: the length field of every attribute is its 4-byte header plus the
\* value bytes written for it. It does not count the padding that follows
\* the attribute: the next attribute of the same level starts at or behind
\* its end, on a multiple of 4. For a nested attribute it counts the padding
\* inside the value, the padding behind the last inner attribute included.
C26_AttrLenIsHeaderPlusValue ==
    /\ \A i \in 1..Len(battrs) :
          battrs[i].len = SizeofNlAttr
                          + (IF battrs[i].nested
                             THEN align(battrs[i].val, NLA_ALIGNTO)
                             ELSE battrs[i].val)
    /\ \A i \in 1..Len(battrs), j \in 1..Len(battrs) :
          (battrs[i].parent = battrs[j].parent /\ battrs[i].pos < battrs[j].pos)
             => /\ battrs[i].pos + battrs[i].len <= battrs[j].pos
                /\ battrs[j].pos % NLA_ALIGNTO = 0

\* a nested attribute whose only inner attribute has one value byte: three
\* bytes of padding are counted in the outer length, none in the inner
C26_Witness ==
    \E i \in 1..Len(battrs), j \in 1..Len(battrs) :
        /\ battrs[j].nested
        /\ battrs[i].parent = battrs[j].pos
        /\ battrs[i].val = 1
        /\ battrs[i].len = SizeofNlAttr + 1
        /\ battrs[j].len = 3 * SizeofNlAttr

C28_ReuseAfterFinishIsError ==
    bcall.after => bcall.out = "error"

\* C29: nextNlMsg, called again and again on a datagram, returns the
\* messages in order, each with its declared length and starting on the
\* aligned end of the one before; it returns nil when all messages are
\* returned, and fails instead of returning a message whose declared length
\* exceeds the bytes that remain.
C29_NextNlMsgSplits ==
    LET ds == pdata.lens
        k == Len(pmsgs)
    IN /\ k <= Len(ds)
       /\ \A i \in 1..k :
             /\ pmsgs[i].start = Off(ds, i)
             /\ pmsgs[i].end = pmsgs[i].start + ds[i]
             /\ pmsgs[i].end <= pdata.size
       /\ ppc = "end" => (k = Len(ds) /\ ppos >= pdata.size)
       /\ ppc = "failed" =>
             \/ k < Len(ds) /\ ds[k + 1] > pdata.size - Off(ds, k + 1)
             \/ pdata.size - ppos < SizeofNlMsghdr

\* two messages returned, the first one followed by padding, then nil
C29_Witness ==
    /\ ppc = "end"
    /\ Len(pmsgs) = 2
    /\ pmsgs[1].end = SizeofNlMsghdr + 1
    /\ pmsgs[2].start = SizeofNlMsghdr + NLMSG_ALIGNTO

\* C35: parsing a datagram ends: every call of nextNlMsg and every iteration
\* of TakeAttrs that neither fails nor finds the end moves the position
\* forward, and no step ends in a runtime panic, whatever lengths the
\* message and attribute headers declare (zero included).
C35_ParsingAdvancesOrFails ==
    [][/\ (ppc = "next" /\ ppc' = "check") => ppos' > ppos
       /\ (ppc = "attrs" /\ ppc' = "attrs") => ppos' > ppos
       /\ ppc' # "panic"]_pvars

\* C33: decoding a flow that holds a flow key or an action of an unknown
\* attribute type fails with an error; the attribute is not dropped from a
\* flow spec that is returned.
C33_UnknownTypeFailsDecode ==
    (/\ fpc \in {"handle", "datapath"}
     /\ \/ UnknownType \in DOMAIN fwire.keys
        \/ "masks" \in DOMAIN fwire /\ UnknownType \in DOMAIN fwire.masks
        \/ \E i \in 1..Len(fwire.actions) : fwire.actions[i].typ = UnknownType)
        => ~feq

\* C34: decoding a tunnel key or a set-tunnel action in which the value of
\* a sub-field attribute (id, ipv4 source, ipv4 destination, tos, ttl, DF,
\* checksum) has the wrong length fails.
C34_WrongLengthFailsDecode ==
    (/\ fpc = "tunnel"
     /\ \E a \in DOMAIN fwire.attrs : fwire.attrs[a] # TunnelAttrSize(a))
        => ~feq

\* C40: the autoload probe is made at most once in the process, also when
\* several threads look up families at the same time.
C40_ProbeAtMostOnce ==
    lprobes <= 1

====
